---- MODULE Spec2Model ----
(***************************************************************************)
(* A model of the coderag retrieval engine: the file-backed vector store   *)
(* (vectordb/storage.rs), the VectorDatabase facade (vectordb/mod.rs), the *)
(* HNSW index (vectordb/indexing.rs), the linear similarity search         *)
(* (vectordb/search.rs) and the hybrid search (vectordb/hybrid_search.rs). *)
(*                                                                         *)
(* Floats are fixed-point integers: One stands for 1.0.  The vectors used  *)
(* all have Euclidean norm 5 (or 0), so that cosine similarities are exact *)
(* multiples of 1/One.                                                     *)
(***************************************************************************)
EXTENDS Integers, Sequences, FiniteSets, TLC

VARIABLES
    data_path,   \* VectorStorage.data_path
    entries,     \* VectorStorage.data.entries
    version,     \* VectorStorage.data.metadata.version
    modified,    \* VectorStorage.modified
    index,       \* VectorDatabase.index (NoIndex or an HnswIndex)
    files,       \* the file system: path -> file contents
    proc,        \* where the running process is inside VectorStorage::save
    last,        \* the last call made, its arguments and what it returned
    lastSaved,   \* the entries the last completed save wrote (history)
    now,         \* the clock: what SystemTime::now() / Instant::now() returns
    crawler,     \* the Crawler and the crawl it is running (NoCrawler: none)
    chunker,     \* a chunker instance and what it has emitted (NoChunker: none)
    quantizer,   \* a VectorQuantizer (NoQuantizer: none)
    service      \* an EmbeddingService and the calls running on it (NoService: none)

vars == <<data_path, entries, version, modified, index, files, proc, last, lastSaved,
          now, crawler, chunker, quantizer, service>>
(* the state outside the vector database *)
extra == <<quantizer, service>>
aux == <<now, crawler, chunker, extra>>

(***************************************************************************)
(* Bounds of the model.                                                    *)
(***************************************************************************)
MaxEntries == 2        \* longest entry list explored (database, index)
MaxStoreEntries == 2   \* longest entry list explored (persistence)
MaxLevel == 1          \* highest level the level generator draws
MaxLimit == 2          \* largest search limit explored

(***************************************************************************)
(* Values.                                                                 *)
(***************************************************************************)
One == 25              \* fixed-point 1.0
NaN == 0 - 999         \* f32::NAN (any non-finite f32), outside the finite range
D == 2                 \* the dimension the database is configured with
STORAGE_VERSION == 1
OtherVersion == 2      \* a format version written by another release

NoIndex == [present |-> FALSE]
NotSaved == [valid |-> FALSE, entries |-> <<>>]
NoCrawler == [present |-> FALSE]
NoChunker == [present |-> FALSE]
NoQuantizer == [present |-> FALSE]
NoService == [present |-> FALSE]
Ids == {"a", "b", "c"}
Urls == {"u1", "u2"}

Min(a, b) == IF a < b THEN a ELSE b
Max(a, b) == IF a < b THEN b ELSE a

(* The documents handed to add_document: id, url and content type.  The    *)
(* url of a document is fixed by its id: a comes from u1, b and c from u2.  *)
UrlOf(id) == IF id = "a" THEN "u1" ELSE "u2"
TypeOf(id) == IF id = "b" THEN "CodeExample" ELSE "Documentation"
Document(id) == [id |-> id, url |-> UrlOf(id), metadata_content_type |-> TypeOf(id)]

(* The embedding the embedder returns for a document: of dimension D.      *)
EmbeddingOf(id) ==
    CASE id = "a" -> <<5, 0>>
      [] id = "b" -> <<4, 3>>
      [] id = "d" -> <<3, 4>>
      [] OTHER    -> <<0, 5>>
(* An embedding of another dimension.                                      *)
WrongDimEmbedding == <<5, 0, 0>>
(* An embedding with non-finite components: add_document takes any        *)
(* Vec<f32> and looks at none of its values.                               *)
NaNEmbedding == <<NaN, NaN>>

VectorEntry(id, embedding) ==
    [id |-> id, document |-> Document(id), vector |-> embedding]

(***************************************************************************)
(* Similarity (vectordb/search.rs, vectordb/indexing.rs).                  *)
(***************************************************************************)
RECURSIVE DotFrom(_, _, _)
DotFrom(a, b, i) ==
    IF i > Min(Len(a), Len(b)) THEN 0 ELSE a[i] * b[i] + DotFrom(a, b, i + 1)
(* a.iter().zip(b.iter()).map(|(x, y)| x * y).sum() *)
Dot(a, b) == DotFrom(a, b, 1)
(* f32::sqrt, on the squared norms that occur (perfect squares) *)
Sqrt(n) == CHOOSE r \in 0..n : r * r <= n /\ (r + 1) * (r + 1) > n

(* cosine_similarity(a, b), in units of 1/One *)
cosine_similarity(a, b) ==
    IF Len(a) # Len(b) THEN 0
    ELSE LET norm_a == Sqrt(Dot(a, a))
             norm_b == Sqrt(Dot(b, b))
         IN  IF norm_a = 0 \/ norm_b = 0 THEN 0
             ELSE (Dot(a, b) * One) \div (norm_a * norm_b)

RECURSIVE L2From(_, _, _)
L2From(a, b, i) ==
    IF i > Min(Len(a), Len(b)) THEN 0
    ELSE (a[i] - b[i]) * (a[i] - b[i]) + L2From(a, b, i + 1)

(***************************************************************************)
(* Orderings and std::collections::BinaryHeap.                             *)
(*                                                                         *)
(* OrdLe(x, y) is x <= y in the Ord of the type of x and y:                *)
(*   HnswEntry            reversed on distance    (indexing.rs)            *)
(*   HybridSearchResult   on combined_score       (hybrid_search.rs)       *)
(*   SearchResult         reversed on score       (search.rs)              *)
(* A heap is the vector the BinaryHeap keeps, the greatest element first.  *)
(***************************************************************************)
OrdLe(x, y) ==
    IF "distance" \in DOMAIN x THEN y.distance <= x.distance
    ELSE IF "combined_score" \in DOMAIN x THEN x.combined_score <= y.combined_score
    ELSE y.score <= x.score

Parent(pos) == (pos - 1) \div 2

RECURSIVE SiftUp(_, _, _, _)
(* BinaryHeap::sift_up(start, pos), the element e taken out of the hole *)
SiftUp(h, start, pos, e) ==
    IF pos > start /\ ~OrdLe(e, h[Parent(pos) + 1])
    THEN SiftUp([h EXCEPT ![pos + 1] = h[Parent(pos) + 1]], start, Parent(pos), e)
    ELSE [h EXCEPT ![pos + 1] = e]

(* BinaryHeap::push *)
HeapPush(h, x) == SiftUp(Append(h, x), 0, Len(h), x)

RECURSIVE SiftDownToBottom(_, _, _)
(* BinaryHeap::sift_down_to_bottom(0): the hole goes down to a leaf along  *)
(* the greater children, then the element is sifted up from there.         *)
SiftDownToBottom(h, pos, e) ==
    LET end == Len(h)
        child == 2 * pos + 1
    IN  IF child <= end - 2
        THEN LET c == IF OrdLe(h[child + 1], h[child + 2]) THEN child + 1 ELSE child
             IN  SiftDownToBottom([h EXCEPT ![pos + 1] = h[c + 1]], c, e)
        ELSE IF child = end - 1
        THEN SiftUp([h EXCEPT ![pos + 1] = h[child + 1]], 0, child, e)
        ELSE SiftUp(h, 0, pos, e)

(* BinaryHeap::pop on a non-empty heap: the greatest element and the rest *)
HeapPop(h) ==
    LET lastItem == h[Len(h)]
        rest == SubSeq(h, 1, Len(h) - 1)
    IN  IF rest = <<>> THEN [item |-> lastItem, heap |-> <<>>]
        ELSE [item |-> rest[1], heap |-> SiftDownToBottom(rest, 0, lastItem)]

RECURSIVE SiftDown(_, _, _)
(* BinaryHeap::sift_down(pos) *)
SiftDown(h, pos, e) ==
    LET end == Len(h)
        child == 2 * pos + 1
    IN  IF child <= end - 2
        THEN LET c == IF OrdLe(h[child + 1], h[child + 2]) THEN child + 1 ELSE child
             IN  IF OrdLe(h[c + 1], e) THEN [h EXCEPT ![pos + 1] = e]
                 ELSE SiftDown([h EXCEPT ![pos + 1] = h[c + 1]], c, e)
        ELSE IF child = end - 1 /\ ~OrdLe(h[child + 1], e)
        THEN [h EXCEPT ![pos + 1] = h[child + 1], ![child + 1] = e]
        ELSE [h EXCEPT ![pos + 1] = e]

RECURSIVE Rebuild(_, _)
Rebuild(h, n) == IF n = 0 THEN h ELSE Rebuild(SiftDown(h, n - 1, h[n]), n - 1)
(* vec.into_iter().collect::<BinaryHeap<_>>() *)
HeapFrom(v) == Rebuild(v, Len(v) \div 2)

(* The key the sorts of the program order by, smallest first:              *)
(* distance ascending, combined_score descending, score descending.        *)
SortKey(x) ==
    IF "distance" \in DOMAIN x THEN x.distance
    ELSE IF "combined_score" \in DOMAIN x THEN 0 - x.combined_score
    ELSE 0 - x.score

RECURSIVE InsertSorted(_, _)
InsertSorted(sorted, x) ==
    IF sorted = <<>> THEN <<x>>
    ELSE IF SortKey(sorted[Len(sorted)]) <= SortKey(x) THEN Append(sorted, x)
    ELSE Append(InsertSorted(SubSeq(sorted, 1, Len(sorted) - 1), x), sorted[Len(sorted)])
RECURSIVE SortFrom(_, _, _)
SortFrom(v, i, acc) ==
    IF i > Len(v) THEN acc ELSE SortFrom(v, i + 1, InsertSorted(acc, v[i]))
(* slice::sort_by: a stable sort *)
sort_by(v) == SortFrom(v, 1, <<>>)

(* Vec::truncate(n), iter().take(n) *)
Take(v, n) == SubSeq(v, 1, Min(n, Len(v)))

(***************************************************************************)
(* HnswIndex (vectordb/indexing.rs).                                       *)
(*                                                                         *)
(* An index is a record: nodes (a function from the ids present to nodes), *)
(* entry_point, params, max_level, dimension.  A node has its vector, its  *)
(* connections (one list of ids per layer 0..max_level; layer l is element *)
(* l + 1) and its max_level.  An operation that can fail yields a record   *)
(* with ok and, on failure, the error; the index it yields is the index as *)
(* the call left it.                                                       *)
(***************************************************************************)
NoEntryPoint == "None"

(* HnswParams::default() *)
DefaultParams ==
    [max_connections |-> 16, max_connections_level0 |-> 32,
     ef_construction |-> 100, ef_search |-> 50, use_cosine |-> TRUE]

(* HnswIndex::new *)
HnswNew(dimension, params) ==
    [present |-> TRUE, nodes |-> [x \in {} |-> x], entry_point |-> NoEntryPoint,
     params |-> params, max_level |-> 0, dimension |-> dimension]

(* HnswIndex::distance, in units of 1/One *)
distance(params, a, b) ==
    IF params.use_cosine THEN One - cosine_similarity(a, b)
    ELSE L2From(a, b, 1)

HnswEntry(id, dist) == [id |-> id, distance |-> dist]

(* HnswConnections::new(max_level): one empty list per layer 0..max_level *)
NewConnections(max_level) == [l \in 1..(max_level + 1) |-> <<>>]
(* HnswConnections::get_layer_connections: None beyond the node's layers *)
HasLayer(node, layer) == layer + 1 <= Len(node.connections)
LayerConnections(node, layer) == node.connections[layer + 1]

RECURSIVE SearchLayerFrom(_, _, _, _, _, _)
(* the loop of search_layer over the connections of the starting node *)
SearchLayerFrom(ix, query, conns, i, best, visited) ==
    IF i > Len(conns) THEN best
    ELSE LET conn_id == conns[i]
         IN  IF conn_id \in visited \/ conn_id \notin DOMAIN ix.nodes
             THEN SearchLayerFrom(ix, query, conns, i + 1, best, visited \cup {conn_id})
             ELSE LET dist == distance(ix.params, ix.nodes[conn_id].vector, query)
                      best2 == IF dist < best.dist
                               THEN [id |-> conn_id, dist |-> dist] ELSE best
                  IN  SearchLayerFrom(ix, query, conns, i + 1, best2, visited \cup {conn_id})

(* HnswIndex::search_layer: one pass over the connections of best_id at    *)
(* `level`; Err when best_id is no node or has no such layer.              *)
search_layer(ix, query, best_id, best_dist, level) ==
    IF best_id \notin DOMAIN ix.nodes
    THEN [ok |-> FALSE, err |-> "Node not found", id |-> best_id, dist |-> best_dist]
    ELSE IF ~HasLayer(ix.nodes[best_id], level)
    THEN [ok |-> FALSE, err |-> "No connections at level", id |-> best_id, dist |-> best_dist]
    ELSE LET b == SearchLayerFrom(ix, query, LayerConnections(ix.nodes[best_id], level), 1,
                                  [id |-> best_id, dist |-> best_dist], {})
         IN  [ok |-> TRUE, err |-> "", id |-> b.id, dist |-> b.dist]

(* the body of the inner loop for a connection seen for the first time:     *)
(* `seen` has it in visited; it is pushed on both heaps when the results    *)
(* are fewer than ef or it is nearer than results.peek(), and the results   *)
(* are popped once when they exceed ef.                                     *)
VisitConnection(seen, ef, entry) ==
    LET Kept(pushed) == IF Len(pushed) > ef THEN HeapPop(pushed).heap ELSE pushed
        should_add == IF Len(seen.results) < ef THEN TRUE
                      ELSE entry.distance < seen.results[1].distance
    IN  IF should_add
        THEN [seen EXCEPT !.candidates = HeapPush(@, entry),
                          !.results = Kept(HeapPush(@, entry)),
                          !.admitted = @ \cup {entry}]
        ELSE seen

RECURSIVE SearchNeighborsConns(_, _, _, _, _, _)
(* the inner loop of search_neighbors over the connections of one node;    *)
(* st holds candidates, results and visited.                               *)
SearchNeighborsConns(ix, query, ef, conns, i, st) ==
    IF i > Len(conns) THEN st
    ELSE IF conns[i] \in st.visited
    THEN SearchNeighborsConns(ix, query, ef, conns, i + 1, st)
    ELSE IF conns[i] \notin DOMAIN ix.nodes
    THEN SearchNeighborsConns(ix, query, ef, conns, i + 1,
                              [st EXCEPT !.visited = @ \cup {conns[i]}])
    ELSE SearchNeighborsConns(ix, query, ef, conns, i + 1,
             VisitConnection([st EXCEPT !.visited = @ \cup {conns[i]}], ef,
                 HnswEntry(conns[i],
                           distance(ix.params, ix.nodes[conns[i]].vector, query))))

RECURSIVE SearchNeighborsLoop(_, _, _, _, _)
(* the while loop of search_neighbors *)
SearchNeighborsLoop(ix, query, ef, level, st) ==
    LET Popped(current, st1) ==
            IF st.results # <<>> /\ current.distance > st.results[1].distance
            THEN [ok |-> TRUE, err |-> "", results |-> st.results,
                  admitted |-> st.admitted]
            ELSE IF current.id \notin DOMAIN ix.nodes
            THEN SearchNeighborsLoop(ix, query, ef, level, st1)
            ELSE IF ~HasLayer(ix.nodes[current.id], level)
            THEN [ok |-> FALSE, err |-> "No connections at level", results |-> <<>>,
                  admitted |-> st.admitted]
            ELSE SearchNeighborsLoop(ix, query, ef, level,
                     SearchNeighborsConns(ix, query, ef,
                         LayerConnections(ix.nodes[current.id], level), 1, st1))
        Pop(popped) == Popped(popped.item, [st EXCEPT !.candidates = popped.heap])
    IN  IF st.candidates = <<>>
        THEN [ok |-> TRUE, err |-> "", results |-> st.results, admitted |-> st.admitted]
        ELSE Pop(HeapPop(st.candidates))

(* HnswIndex::search_neighbors: the entries found, sorted by distance;     *)
(* admitted is the history of the entries pushed on results                *)
search_neighbors(ix, query, entry_id, ef, level) ==
    LET From(first) ==
            SearchNeighborsLoop(ix, query, ef, level,
                [candidates |-> <<first>>, results |-> <<first>>,
                 visited |-> {entry_id}, admitted |-> {first}])
        Sorted(r) == [r EXCEPT !.results = sort_by(@)]
    IN  IF entry_id \notin DOMAIN ix.nodes
        THEN [ok |-> FALSE, err |-> "Entry node not found", results |-> <<>>,
              admitted |-> {}]
        ELSE Sorted(From(HnswEntry(entry_id,
                 distance(ix.params, ix.nodes[entry_id].vector, query))))

SetLayer(ix, id, layer, conns) ==
    [ix EXCEPT !.nodes[id].connections[layer + 1] = conns]

Ids_of(neighbors) == [i \in 1..Len(neighbors) |-> neighbors[i].id]
Contains(seq, x) == \E i \in 1..Len(seq) : seq[i] = x

RECURSIVE ExistingDistances(_, _, _, _)
(* the distances from a neighbour to the nodes it is connected to *)
ExistingDistances(ix, conns, i, neighbor_vector) ==
    IF i > Len(conns) THEN <<>>
    ELSE IF conns[i] \notin DOMAIN ix.nodes
    THEN ExistingDistances(ix, conns, i + 1, neighbor_vector)
    ELSE <<HnswEntry(conns[i],
                     distance(ix.params, ix.nodes[conns[i]].vector, neighbor_vector))>>
         \o ExistingDistances(ix, conns, i + 1, neighbor_vector)

RECURSIVE PushBack(_, _, _, _, _, _)
(* a second loop that always takes the `else` branch: the new node is      *)
(* pushed on each neighbour's list whatever its length                      *)
PushBack(ix, id, neighbors, i, level, max_connections) ==
    IF i > Len(neighbors) THEN ix
    ELSE LET neighbor == neighbors[i]
             skip == \/ neighbor.id \notin DOMAIN ix.nodes
                     \/ ~HasLayer(ix.nodes[neighbor.id], level)
                     \/ Contains(LayerConnections(ix.nodes[neighbor.id], level), id)
         IN  IF skip THEN PushBack(ix, id, neighbors, i + 1, level, max_connections)
             ELSE PushBack(SetLayer(ix, neighbor.id, level,
                               Append(LayerConnections(ix.nodes[neighbor.id], level), id)),
                           id, neighbors, i + 1, level, max_connections)

RECURSIVE ConnectBack(_, _, _, _, _, _)
(* the second loop of connect_neighbors: each neighbour gets the new node  *)
(* in its list at `level`; a full list is re-selected by distance.         *)
ConnectBack(ix, id, neighbors, i, level, max_connections) ==
    IF i > Len(neighbors) THEN ix
    ELSE LET neighbor == neighbors[i]
             skip == \/ neighbor.id \notin DOMAIN ix.nodes
                     \/ ~HasLayer(ix.nodes[neighbor.id], level)
                     \/ Contains(LayerConnections(ix.nodes[neighbor.id], level), id)
         IN  IF skip THEN ConnectBack(ix, id, neighbors, i + 1, level, max_connections)
             ELSE LET existing == LayerConnections(ix.nodes[neighbor.id], level)
                      all_connections ==
                          sort_by(<<HnswEntry(id, neighbor.distance)>> \o
                                  ExistingDistances(ix, existing, 1,
                                                    ix.nodes[neighbor.id].vector))
                      updated ==
                          IF Len(existing) >= max_connections
                          THEN Ids_of(Take(all_connections, max_connections))
                          ELSE Append(existing, id)
                  IN  ConnectBack(SetLayer(ix, neighbor.id, level, updated),
                                  id, neighbors, i + 1, level, max_connections)

(* HnswIndex::connect_neighbors *)
connect_neighbors(ix, id, neighbors, level, max_connections) ==
    IF id \notin DOMAIN ix.nodes
    THEN [ok |-> FALSE, err |-> "Node not found", ix |-> ix]
    ELSE IF ~HasLayer(ix.nodes[id], level)
    THEN [ok |-> FALSE, err |-> "No connections at level", ix |-> ix]
    ELSE LET taken == Take(neighbors, max_connections)
             own == SetLayer(ix, id, level, Ids_of(taken))
         IN  [ok |-> TRUE, err |-> "",
              ix |-> ConnectBack(own, id, taken, 1, level, max_connections)]

RECURSIVE DescendTo(_, _, _, _, _)
(* for l in (lowest..=top).rev(): search_layer(query, cur, l)?, as in      *)
(* connect_node (lowest = level + 1) and in search (lowest = 1)            *)
DescendTo(ix, query, cur, l, lowest) ==
    LET Searched(r) ==
            IF ~r.ok THEN r
            ELSE DescendTo(ix, query, [id |-> r.id, dist |-> r.dist], l - 1, lowest)
    IN  IF l < lowest THEN [ok |-> TRUE, err |-> "", id |-> cur.id, dist |-> cur.dist]
        ELSE Searched(search_layer(ix, query, cur.id, cur.dist, l))

RECURSIVE ConnectLevels(_, _, _, _, _)
(* the second loop of connect_node: for l in (0..=level).rev() *)
ConnectLevels(ix, id, vector, cur_node_id, l) ==
    LET ef == IF l = 0 THEN ix.params.ef_construction * 2
              ELSE ix.params.ef_construction
        max_conn == IF l = 0 THEN ix.params.max_connections_level0
                    ELSE ix.params.max_connections
        Connected(c, next) ==
            IF ~c.ok THEN c ELSE ConnectLevels(c.ix, id, vector, next, l - 1)
        Found(nearest) ==
            IF ~nearest.ok THEN [ok |-> FALSE, err |-> nearest.err, ix |-> ix]
            ELSE Connected(connect_neighbors(ix, id, nearest.results, l, max_conn),
                           IF nearest.results # <<>> THEN nearest.results[1].id
                           ELSE cur_node_id)
    IN  IF l < 0 THEN [ok |-> TRUE, err |-> "", ix |-> ix]
        ELSE Found(search_neighbors(ix, vector, cur_node_id, ef, l))

(* HnswIndex::connect_node *)
connect_node(ix, id, level) ==
    LET Connected(c) ==
            IF ~c.ok THEN c
            ELSE IF level > c.ix.max_level
            THEN [c EXCEPT !.ix.entry_point = id, !.ix.max_level = level]
            ELSE c
        Descended(down) ==
            IF ~down.ok THEN [ok |-> FALSE, err |-> down.err, ix |-> ix]
            ELSE Connected(ConnectLevels(ix, id, ix.nodes[id].vector, down.id, level))
    IN  IF ix.entry_point = NoEntryPoint
        THEN [ok |-> FALSE, err |-> "No entry point", ix |-> ix]
        ELSE IF id \notin DOMAIN ix.nodes
        THEN [ok |-> FALSE, err |-> "Node not found", ix |-> ix]
        ELSE Descended(DescendTo(ix, ix.nodes[id].vector,
                 [id |-> ix.entry_point,
                  dist |-> distance(ix.params, ix.nodes[ix.entry_point].vector,
                                    ix.nodes[id].vector)],
                 ix.max_level, level + 1))

(* HnswIndex::add, with the level the level generator drew *)
HnswAdd(ix, id, vector, level) ==
    LET is_first_node == (DOMAIN ix.nodes = {})
        node == [vector |-> vector, connections |-> NewConnections(level),
                 max_level |-> level]
        Inserted(raised) ==
            [raised EXCEPT !.nodes =
                [x \in DOMAIN ix.nodes \cup {id} |->
                    IF x = id THEN node ELSE ix.nodes[x]]]
    IN  IF Len(vector) # ix.dimension
        THEN [ok |-> FALSE, err |-> "Vector dimension mismatch", ix |-> ix]
        ELSE IF id \in DOMAIN ix.nodes
        THEN [ok |-> FALSE, err |-> "Node already exists", ix |-> ix]
        ELSE IF is_first_node
        THEN [ok |-> TRUE, err |-> "",
              ix |-> [Inserted(ix) EXCEPT !.entry_point = id, !.max_level = level]]
        ELSE connect_node(Inserted(IF level > ix.max_level
                                   THEN [ix EXCEPT !.max_level = level] ELSE ix),
                          id, level)

RECURSIVE ToScores(_, _, _)
ToScores(params, nearest, i) ==
    IF i > Len(nearest) THEN <<>>
    ELSE <<[id |-> nearest[i].id,
            score |-> IF params.use_cosine THEN One - nearest[i].distance
                      ELSE (One * One) \div (One + nearest[i].distance)]>>
         \o ToScores(params, nearest, i + 1)

(* HnswIndex::search: the k nearest found, as (id, score) *)
HnswSearch(ix, query, k) ==
    LET Found(nearest) ==
            IF ~nearest.ok THEN [ok |-> FALSE, err |-> nearest.err, results |-> <<>>]
            ELSE [ok |-> TRUE, err |-> "",
                  results |-> ToScores(ix.params, Take(nearest.results, k), 1)]
        Descended(down) ==
            IF ~down.ok THEN [ok |-> FALSE, err |-> down.err, results |-> <<>>]
            ELSE Found(search_neighbors(ix, query, down.id,
                                        Max(ix.params.ef_search, k), 0))
    IN  IF Len(query) # ix.dimension
        THEN [ok |-> FALSE, err |-> "Query dimension mismatch", results |-> <<>>]
        ELSE IF DOMAIN ix.nodes = {} THEN [ok |-> TRUE, err |-> "", results |-> <<>>]
        ELSE IF ix.entry_point = NoEntryPoint
        THEN [ok |-> FALSE, err |-> "No entry point", results |-> <<>>]
        ELSE Descended(DescendTo(ix, query,
                 [id |-> ix.entry_point,
                  dist |-> distance(ix.params, ix.nodes[ix.entry_point].vector, query)],
                 ix.max_level, 1))

(***************************************************************************)
(* Linear search (vectordb/search.rs).                                     *)
(***************************************************************************)
NoFilter == [some |-> FALSE, v |-> 0]
Some(x) == [some |-> TRUE, v |-> x]
SearchOptions(limit, min_score, source_filter, content_type_filter) ==
    [limit |-> limit, min_score |-> min_score, source_filter |-> source_filter,
     content_type_filter |-> content_type_filter]

(* str::contains on the urls and patterns of the model: a pattern is in a  *)
(* url when it is the url itself or the prefix "u" all urls share.         *)
UrlContains(url, pattern) == pattern = url \/ pattern = "u"

(* the source and content-type filters of search_documents and of          *)
(* VectorDatabase::search                                                  *)
PassesDocFilters(document, options) ==
    /\ options.source_filter.some => UrlContains(document.url, options.source_filter.v)
    /\ options.content_type_filter.some =>
           document.metadata_content_type = options.content_type_filter.v
PassesMinScore(score, options) ==
    options.min_score.some => ~(score < options.min_score.v)

SearchResult(document, score) == [document |-> document, score |-> score]

RECURSIVE SearchDocumentsFrom(_, _, _, _, _)
(* the loop of search_documents over the entries; heap is the BinaryHeap *)
SearchDocumentsFrom(es, i, query_embedding, options, heap) ==
    IF i > Len(es) THEN heap
    ELSE LET entry == es[i]
             score == cosine_similarity(query_embedding, entry.vector)
         IN  IF ~PassesDocFilters(entry.document, options) \/ ~PassesMinScore(score, options)
             THEN SearchDocumentsFrom(es, i + 1, query_embedding, options, heap)
             ELSE LET pushed == HeapPush(heap, SearchResult(entry.document, score))
                      kept == IF Len(pushed) > options.limit * 2
                              THEN HeapFrom(Take(sort_by(pushed), options.limit))
                              ELSE pushed
                  IN  SearchDocumentsFrom(es, i + 1, query_embedding, options, kept)

(* search_documents(storage, query_embedding, options) *)
search_documents(es, query_embedding, options) ==
    Take(sort_by(SearchDocumentsFrom(es, 1, query_embedding, options, <<>>)), options.limit)

(***************************************************************************)
(* VectorStorage (vectordb/storage.rs).                                    *)
(***************************************************************************)

(* A path is a stem and an extension; Path::with_extension replaces the    *)
(* extension.                                                              *)
Path(stem, ext) == [stem |-> stem, ext |-> ext]
with_extension(path, ext) == [path EXCEPT !.ext = ext]
DataPaths == {Path("vectordb", "json"), Path("vectordb", "tmp")}
Paths == DataPaths \cup {with_extension(p, "tmp") : p \in DataPaths}

(* File contents: absent, a truncated or partly written file, or a whole   *)
(* JSON document.                                                          *)
Absent == [kind |-> "absent"]
Partial == [kind |-> "partial"]

(* serde_json writes a finite f32 as a number and a non-finite one as null *)
JsonNumber(x) == IF x = NaN THEN [null |-> TRUE, num |-> 0] ELSE [null |-> FALSE, num |-> x]
JsonEntry(e) ==
    [id |-> e.id, document |-> e.document,
     vector |-> [j \in 1..Len(e.vector) |-> JsonNumber(e.vector[j])]]
(* serde_json::to_string_pretty(&data) *)
to_string_pretty(ver, es) ==
    [kind |-> "json", version |-> ver,
     entries |-> [i \in 1..Len(es) |-> JsonEntry(es[i])]]

(* serde_json::from_str: fails on a partial document and on null where an  *)
(* f32 is expected.                                                        *)
JsonParses(contents) ==
    /\ contents.kind = "json"
    /\ \A i \in 1..Len(contents.entries) :
          \A j \in 1..Len(contents.entries[i].vector) :
              ~contents.entries[i].vector[j].null
EntryOfJson(je) ==
    [id |-> je.id, document |-> je.document,
     vector |-> [j \in 1..Len(je.vector) |-> je.vector[j].num]]
from_str(contents) ==
    [version |-> contents.version,
     entries |-> [i \in 1..Len(contents.entries) |-> EntryOfJson(contents.entries[i])]]

(* VectorStorage::new: an empty store of the current format version *)
NewStorage == [entries |-> <<>>, version |-> STORAGE_VERSION, modified |-> FALSE]

(* VectorStorage::load, on the store `st` and the file system `fs`: the    *)
(* store afterwards and whether Ok was returned.  self.data is assigned    *)
(* before the version is compared.                                         *)
StorageLoad(st, path, fs) ==
    IF fs[path].kind = "absent" THEN [st |-> st, ok |-> TRUE]
    ELSE IF ~JsonParses(fs[path]) THEN [st |-> st, ok |-> FALSE]
    ELSE LET data == from_str(fs[path])
             st2 == [st EXCEPT !.entries = data.entries, !.version = data.version]
         IN  [st |-> st2, ok |-> data.version = STORAGE_VERSION]

(* VectorStorage::add_document: pushes the entry, whatever its id and the  *)
(* length of the embedding.                                                *)
StorageAdd(es, id, embedding) == Append(es, VectorEntry(id, embedding))

(* VectorStorage::remove_documents_by_source *)
RetainNotSource(es, source_url) ==
    SelectSeq(es, LAMBDA e : e.document.url # source_url)
StorageRemoveBySource(es, source_url) ==
    LET kept == RetainNotSource(es, source_url)
    IN  [entries |-> kept, removed_count |-> Len(es) - Len(kept)]

(* VectorStorage::save, step 1: the tmp path save() writes to *)
TempPath(path) == with_extension(path, "tmp")
(* fs::rename(from, to): renaming a file onto itself changes nothing *)
Rename(fs, from, to) ==
    IF from = to THEN fs ELSE [fs EXCEPT ![to] = fs[from], ![from] = Absent]

Store == [entries |-> entries, version |-> version, modified |-> modified]
Idle == [at |-> "idle"]
NoCall == [op |-> "none"]

(***************************************************************************)
(* The persistence specification: one VectorStorage, its file, and a       *)
(* process that can be killed inside save.                                 *)
(***************************************************************************)
StoreInit ==
    /\ data_path \in DataPaths
    /\ entries = <<>>
    /\ version = STORAGE_VERSION
    /\ modified = FALSE
    /\ index = NoIndex
    /\ files = [p \in Paths |-> Absent]
    /\ proc = Idle
    /\ last = NoCall
    /\ lastSaved = NotSaved
    /\ now = 0
    /\ crawler = NoCrawler
    /\ chunker = NoChunker
    /\ quantizer = NoQuantizer
    /\ service = NoService

(* storage.add_document(doc, embedding) *)
StAdd(id, embedding) ==
    /\ proc = Idle
    /\ Len(entries) < MaxStoreEntries
    /\ entries' = StorageAdd(entries, id, embedding)
    /\ modified' = TRUE
    /\ last' = [op |-> "add", ok |-> TRUE, before |-> entries]
    /\ UNCHANGED <<aux, data_path, version, index, files, proc, lastSaved>>

(* storage.remove_documents_by_source(url) *)
StRemoveBySource(url) ==
    /\ proc = Idle
    /\ LET r == StorageRemoveBySource(entries, url)
       IN  /\ entries' = r.entries
           /\ modified' = (modified \/ r.removed_count > 0)
           /\ last' = [op |-> "remove_by_source", ok |-> TRUE, before |-> entries,
                       url |-> url, count |-> r.removed_count]
    /\ UNCHANGED <<aux, data_path, version, index, files, proc, lastSaved>>

(* storage.clear() *)
StClear ==
    /\ proc = Idle
    /\ entries' = <<>>
    /\ modified' = TRUE
    /\ last' = [op |-> "clear", ok |-> TRUE, before |-> entries]
    /\ UNCHANGED <<aux, data_path, version, index, files, proc, lastSaved>>

(* save(), first part of fs::write(&temp_path, json): the tmp file is       *)
(* created or truncated and holds part of the JSON.                        *)
SaveOpen ==
    /\ proc = Idle
    /\ proc' = [at |-> "writing", json |-> to_string_pretty(version, entries),
                old |-> files[data_path], saving |-> entries]
    /\ files' = [files EXCEPT ![TempPath(data_path)] = Partial]
    /\ lastSaved' = NotSaved
    /\ last' = [op |-> "save", ok |-> FALSE, before |-> entries]
    /\ UNCHANGED <<aux, data_path, entries, version, modified, index>>

(* save(), fs::write returns: the tmp file holds the whole JSON *)
SaveWrite ==
    /\ proc.at = "writing"
    /\ files' = [files EXCEPT ![TempPath(data_path)] = proc.json]
    /\ proc' = [proc EXCEPT !.at = "written"]
    /\ UNCHANGED <<aux, data_path, entries, version, modified, index, last, lastSaved>>

(* save(), fs::rename(&temp_path, &self.data_path), and Ok(()) *)
SaveRename ==
    /\ proc.at = "written"
    /\ files' = Rename(files, TempPath(data_path), data_path)
    /\ proc' = Idle
    /\ lastSaved' = [valid |-> TRUE, entries |-> proc.saving]
    /\ last' = [op |-> "save", ok |-> TRUE, before |-> entries]
    /\ UNCHANGED <<aux, data_path, entries, version, modified, index>>

(* The process is killed inside save(); the program is started again and   *)
(* constructs a VectorStorage on the same path.                            *)
KillInSave ==
    /\ proc.at \in {"writing", "written"}
    /\ proc' = Idle
    /\ entries' = NewStorage.entries
    /\ version' = NewStorage.version
    /\ modified' = NewStorage.modified
    /\ last' = [op |-> "killed", ok |-> FALSE, old |-> proc.old, json |-> proc.json]
    /\ UNCHANGED <<aux, data_path, index, files, lastSaved>>

(* VectorStorage::new(path) on the same path: a fresh store *)
StReopen ==
    /\ proc = Idle
    /\ entries' = NewStorage.entries
    /\ version' = NewStorage.version
    /\ modified' = NewStorage.modified
    /\ last' = [op |-> "new", ok |-> TRUE]
    /\ UNCHANGED <<aux, data_path, index, files, proc, lastSaved>>

(* storage.load() *)
StLoad ==
    /\ proc = Idle
    /\ LET r == StorageLoad(Store, data_path, files)
       IN  /\ entries' = r.st.entries
           /\ version' = r.st.version
           /\ modified' = r.st.modified
           /\ last' = [op |-> "load", ok |-> r.ok, before |-> entries,
                       fresh |-> (last.op = "new"), file |-> files[data_path]]
    /\ UNCHANGED <<aux, data_path, index, files, proc, lastSaved>>

(* Another release of the program, with another format version, has        *)
(* written the data file.                                                  *)
ForeignWrite(id) ==
    /\ proc = Idle
    /\ files' = [files EXCEPT ![data_path] =
                    to_string_pretty(OtherVersion, <<VectorEntry(id, EmbeddingOf(id))>>)]
    /\ lastSaved' = NotSaved
    /\ last' = [op |-> "foreign_write", ok |-> TRUE]
    /\ UNCHANGED <<aux, data_path, entries, version, modified, index, proc>>

StoreIds == {"a", "c"}
StoreNext ==
    \/ \E id \in StoreIds, nan \in BOOLEAN :
          StAdd(id, IF nan THEN NaNEmbedding ELSE EmbeddingOf(id))
    \/ \E url \in Urls : StRemoveBySource(url)
    \/ StClear
    \/ SaveOpen
    \/ SaveWrite
    \/ SaveRename
    \/ KillInSave
    \/ StReopen
    \/ StLoad
    \/ \E id \in StoreIds : ForeignWrite(id)

SpecStore == StoreInit /\ [][StoreNext]_vars

(***************************************************************************)
(* Claims about persistence, checked under SpecStore.                      *)
(***************************************************************************)

(* C7: VectorStorage.load on a file whose metadata.version differs from    *)
(* STORAGE_VERSION returns an error and the in-memory entries after the    *)
(* failed load equal those before it.                                      *)
C7_LoadRejectsVersionUntouched ==
    (/\ last.op = "load"
     /\ last.file.kind = "json"
     /\ JsonParses(last.file)
     /\ last.file.version # STORAGE_VERSION)
    => (~last.ok /\ entries = last.before)

(* C8: if the process is killed at any step of save, the file at the data  *)
(* path holds the complete previous contents or the complete new contents, *)
(* never a partial write.                                                  *)
C8_SaveAtomicUnderKill ==
    /\ (proc.at \in {"writing", "written"}) =>
           (files[data_path] = proc.old \/ files[data_path] = proc.json)
    /\ (last.op = "killed") =>
           (files[data_path] = last.old \/ files[data_path] = last.json)

(* C9: save followed by load in a fresh VectorStorage on the same path     *)
(* yields the entries that were saved: same number, ids, documents and     *)
(* vectors, in the same order.                                             *)
C9_SaveLoadRoundTrip ==
    (last.op = "load" /\ last.fresh /\ lastSaved.valid)
    => entries = lastSaved.entries


(***************************************************************************)
(* VectorDatabase (vectordb/mod.rs): the storage and the optional index.   *)
(***************************************************************************)

RECURSIVE FindDocument(_, _, _)
FindDocument(es, id, i) ==
    IF i > Len(es) THEN [some |-> FALSE, v |-> 0]
    ELSE IF es[i].id = id THEN [some |-> TRUE, v |-> es[i].document]
    ELSE FindDocument(es, id, i + 1)
(* VectorStorage::get_document: the document of the first entry with the id *)
get_document(es, id) == FindDocument(es, id, 1)

RECURSIVE AddAll(_, _, _, _)
(* for entry in entries { index.add(entry.id.clone(), entry.vector.clone())?; } *)
(* levels[i] is the level the generator draws for the i-th entry.          *)
AddAll(ix, es, i, levels) ==
    IF i > Len(es) THEN [ok |-> TRUE, err |-> "", ix |-> ix]
    ELSE LET Added(r) == IF ~r.ok THEN r ELSE AddAll(r.ix, es, i + 1, levels)
         IN  Added(HnswAdd(ix, es[i].id, es[i].vector, levels[i]))

(* VectorDatabase::add_document: the entries, the index and the result.    *)
(* The storage is written first; an error of index.add is returned with    *)
(* the entry already pushed.                                               *)
DbAddDocument(es, ix, id, embedding, level) ==
    LET Indexed(es2, r) == [entries |-> es2, ix |-> r.ix, ok |-> r.ok, err |-> r.err]
    IN  IF ~ix.present
        THEN [entries |-> StorageAdd(es, id, embedding), ix |-> ix, ok |-> TRUE, err |-> ""]
        ELSE Indexed(StorageAdd(es, id, embedding), HnswAdd(ix, id, embedding, level))

(* the index rebuilt from the entries, as remove_documents_by_source and   *)
(* remove_documents_by_age do                                              *)
RebuildIndex(ix, es, levels) ==
    AddAll(HnswNew(ix.dimension, DefaultParams), es, 1, levels)

(* VectorDatabase::remove_documents_by_source *)
DbRemoveDocumentsBySource(es, ix, source_url, levels) ==
    LET Rebuilt(removed, r) ==
            [entries |-> removed.entries, ix |-> r.ix, ok |-> r.ok,
             removed_count |-> removed.removed_count]
        Removed(removed) ==
            IF ~ix.present
            THEN [entries |-> removed.entries, ix |-> ix, ok |-> TRUE,
                  removed_count |-> removed.removed_count]
            ELSE Rebuilt(removed, RebuildIndex(ix, removed.entries, levels))
    IN  Removed(StorageRemoveBySource(es, source_url))

(* VectorDatabase::clear *)
DbClearIndex(ix) == IF ix.present THEN HnswNew(ix.dimension, DefaultParams) ELSE ix

(* VectorDatabase::load: storage.load()?, then the index is built from the *)
(* entries when it is empty.                                               *)
DbLoadDatabase(st, ix, path, fs, levels) ==
    LET Built(loaded, r) == [st |-> loaded.st, ix |-> r.ix, ok |-> r.ok]
        Loaded(loaded) ==
            IF ~loaded.ok THEN [st |-> loaded.st, ix |-> ix, ok |-> FALSE]
            ELSE IF ix.present /\ DOMAIN ix.nodes = {}
            THEN Built(loaded, AddAll(ix, loaded.st.entries, 1, levels))
            ELSE [st |-> loaded.st, ix |-> ix, ok |-> TRUE]
    IN  Loaded(StorageLoad(st, path, fs))

RECURSIVE FilterIndexResults(_, _, _, _)
(* the loop of VectorDatabase::search over the (id, score) pairs the index *)
(* returned: ids without a document and filtered documents are skipped.    *)
FilterIndexResults(es, results, i, options) ==
    IF i > Len(results) THEN <<>>
    ELSE LET document == get_document(es, results[i].id)
             keep == /\ document.some
                     /\ PassesDocFilters(document.v, options)
                     /\ PassesMinScore(results[i].score, options)
         IN  (IF keep THEN <<SearchResult(document.v, results[i].score)>> ELSE <<>>)
             \o FilterIndexResults(es, results, i + 1, options)

(* VectorDatabase::search *)
DbSearch(es, ix, query_embedding, options) ==
    LET Searched(r) ==
            IF ~r.ok THEN [ok |-> FALSE, results |-> <<>>]
            ELSE [ok |-> TRUE, results |-> FilterIndexResults(es, r.results, 1, options)]
    IN  IF ix.present THEN Searched(HnswSearch(ix, query_embedding, options.limit))
        ELSE [ok |-> TRUE, results |-> search_documents(es, query_embedding, options)]

(***************************************************************************)
(* The database specification: one VectorDatabase, with or without an      *)
(* index, and its data file.                                               *)
(***************************************************************************)
Levels == 0..MaxLevel
(* the levels the generator draws in n successive calls *)
LevelDraws(n) == [1..n -> Levels]
JsonPath == Path("vectordb", "json")

(* the embeddings add_document is called with: the one of the document,    *)
(* and for document c also one of another dimension                        *)
EmbeddingsFor(id) ==
    IF id = "c" THEN {EmbeddingOf(id), WrongDimEmbedding} ELSE {EmbeddingOf(id)}

Queries == {<<3, 4>>}
OptionsList ==
    <<SearchOptions(1, NoFilter, NoFilter, NoFilter),
      SearchOptions(MaxLimit, NoFilter, NoFilter, NoFilter),
      SearchOptions(1, NoFilter, Some("u2"), Some("Documentation")),
      SearchOptions(MaxLimit, Some(20), NoFilter, Some("Documentation"))>>

DbInit ==
    /\ data_path = JsonPath
    /\ entries = <<>>
    /\ version = STORAGE_VERSION
    /\ modified = FALSE
    /\ index \in {NoIndex, HnswNew(D, DefaultParams)}
    /\ files = [p \in Paths |-> Absent]
    /\ proc = Idle
    /\ last = NoCall
    /\ lastSaved = NotSaved
    /\ now = 0
    /\ crawler = NoCrawler
    /\ chunker = NoChunker
    /\ quantizer = NoQuantizer
    /\ service = NoService

(* db.add_document(doc, embedding) *)
AddDocument(id, embedding) ==
    /\ Len(entries) < MaxEntries
    /\ \E level \in (IF index.present THEN Levels ELSE {0}) :
       \E r \in {DbAddDocument(entries, index, id, embedding, level)} :
           /\ entries' = r.entries
           /\ index' = r.ix
           /\ last' = [op |-> "add_document", ok |-> r.ok, err |-> r.err,
                       before |-> entries, id |-> id, embedding |-> embedding]
    /\ modified' = TRUE
    /\ UNCHANGED <<aux, data_path, version, files, proc, lastSaved>>

(* db.remove_documents_by_source(url) *)
RemoveDocumentsBySource(url) ==
    /\ \E levels \in LevelDraws(IF index.present
                               THEN Len(RetainNotSource(entries, url)) ELSE 0) :
       \E r \in {DbRemoveDocumentsBySource(entries, index, url, levels)} :
           /\ entries' = r.entries
           /\ index' = r.ix
           /\ modified' = (modified \/ r.removed_count > 0)
           /\ last' = [op |-> "remove_documents_by_source", ok |-> r.ok,
                       before |-> entries, url |-> url, count |-> r.removed_count]
    /\ UNCHANGED <<aux, data_path, version, files, proc, lastSaved>>

(* db.clear() *)
Clear ==
    /\ entries' = <<>>
    /\ modified' = TRUE
    /\ index' = DbClearIndex(index)
    /\ last' = [op |-> "clear", ok |-> TRUE]
    /\ UNCHANGED <<aux, data_path, version, files, proc, lastSaved>>

(* db.save(): the whole of VectorStorage::save *)
Save ==
    /\ files' = Rename([files EXCEPT ![TempPath(data_path)] =
                           to_string_pretty(version, entries)],
                       TempPath(data_path), data_path)
    /\ last' = [op |-> "save", ok |-> TRUE]
    /\ UNCHANGED <<aux, data_path, entries, version, modified, index, proc, lastSaved>>

(* db.load() *)
Load ==
    /\ \E levels \in LevelDraws(IF index.present /\ DOMAIN index.nodes = {}
                                  /\ files[data_path].kind = "json"
                               THEN Len(files[data_path].entries) ELSE 0) :
       \E r \in {DbLoadDatabase(Store, index, data_path, files, levels)} :
           /\ entries' = r.st.entries
           /\ version' = r.st.version
           /\ modified' = r.st.modified
           /\ index' = r.ix
           /\ last' = [op |-> "load", ok |-> r.ok]
    /\ UNCHANGED <<aux, data_path, files, proc, lastSaved>>

(* db.search(query, options) *)
Search(query, options) ==
    /\ \E r \in {DbSearch(entries, index, query, options)} :
           last' = [op |-> "search", ok |-> r.ok, query |-> query,
                    options |-> options, results |-> r.results]
    /\ UNCHANGED <<aux, data_path, entries, version, modified, index, files, proc, lastSaved>>

DbNext ==
    \/ \E id \in Ids : \E embedding \in EmbeddingsFor(id) : AddDocument(id, embedding)
    \/ \E url \in Urls : RemoveDocumentsBySource(url)
    \/ Clear
    \/ Save
    \/ Load
    \/ \E query \in Queries, o \in 1..Len(OptionsList) : Search(query, OptionsList[o])

SpecDb == DbInit /\ [][DbNext]_vars


(***************************************************************************)
(* Claims about the database, checked under SpecDb.                        *)
(***************************************************************************)
EntryIds(es) == {es[i].id : i \in 1..Len(es)}

(* C1: add_document with a document whose id is already in the store      *)
(* returns an error and leaves the entry list unchanged, so no two entries *)
(* ever share an id.                                                       *)
C1_DuplicateIdRejected ==
    /\ (last.op = "add_document" /\ last.id \in EntryIds(last.before))
           => (~last.ok /\ entries = last.before)
    /\ \A i, j \in 1..Len(entries) : i # j => entries[i].id # entries[j].id

(* C2: add_document with an embedding whose length differs from the        *)
(* configured dimension D returns an error and leaves the entry list       *)
(* unchanged, so every stored vector has dimension D.                      *)
C2_WrongDimensionRejected ==
    /\ (last.op = "add_document" /\ Len(last.embedding) # D)
           => (~last.ok /\ entries = last.before)
    /\ \A i \in 1..Len(entries) : Len(entries[i].vector) = D

(* C3: with an index, after any sequence of calls the node ids of the      *)
(* index are the entry ids of the store, one node per entry.               *)
C3_IndexMatchesStore ==
    index.present =>
        /\ DOMAIN index.nodes = EntryIds(entries)
        /\ Cardinality(DOMAIN index.nodes) = Len(entries)

(* the entries that pass the source, content-type and min-score filters *)
Passing(es, query, options) ==
    {i \in 1..Len(es) :
        /\ PassesDocFilters(es[i].document, options)
        /\ PassesMinScore(cosine_similarity(query, es[i].vector), options)}
NonIncreasing(results) ==
    \A i \in 1..(Len(results) - 1) : results[i].score >= results[i + 1].score

(* a store as C1 and C2 describe it: ids unique, vectors of dimension D *)
WellFormed(es) ==
    /\ \A i, j \in 1..Len(es) : i # j => es[i].id # es[j].id
    /\ \A i \in 1..Len(es) : Len(es[i].vector) = D

(* C5: search returns exactly min(limit, number of entries passing the     *)
(* filters) results, in non-increasing order of score, with or without the *)
(* index.  Stated for a well-formed store whose index, if any, holds       *)
(* exactly the entries, and for a search that returned Ok.                 *)
C5_SearchReturnsMinKFiltered ==
    (/\ last.op = "search" /\ last.ok
     /\ WellFormed(entries)
     /\ index.present => DOMAIN index.nodes = EntryIds(entries)) =>
        /\ Len(last.results) =
               Min(last.options.limit,
                   Cardinality(Passing(entries, last.query, last.options)))
        /\ NonIncreasing(last.results)

(* C10: remove_documents_by_source(u) removes exactly the entries whose    *)
(* url is u, returns their number and keeps the others in their order.     *)
(* Stated for a store that was well-formed before the call.                *)
C10_RemoveBySourceExact ==
    (last.op = "remove_documents_by_source" /\ WellFormed(last.before)) =>
        /\ last.ok
        /\ last.count =
               Cardinality({i \in 1..Len(last.before) :
                               last.before[i].document.url = last.url})
        /\ entries = SelectSeq(last.before, LAMBDA e : e.document.url # last.url)

(***************************************************************************)
(* The index specification: one HnswIndex, adds and searches.              *)
(***************************************************************************)
MaxNodes == 3          \* most nodes the index holds

(* parameters small enough for the connection caps to bind *)
SmallParams ==
    [max_connections |-> 1, max_connections_level0 |-> 2,
     ef_construction |-> 1, ef_search |-> 1, use_cosine |-> FALSE]

HnswInit ==
    /\ data_path = JsonPath
    /\ entries = <<>>
    /\ version = STORAGE_VERSION
    /\ modified = FALSE
    /\ index \in {HnswNew(D, DefaultParams), HnswNew(D, SmallParams)}
    /\ files = [p \in Paths |-> Absent]
    /\ proc = Idle
    /\ last = NoCall
    /\ lastSaved = NotSaved
    /\ now = 0
    /\ crawler = NoCrawler
    /\ chunker = NoChunker
    /\ quantizer = NoQuantizer
    /\ service = NoService

(* index.add(id, vector), the level generator drawing `level` *)
IndexAdd(id, vector, level) ==
    /\ Cardinality(DOMAIN index.nodes) < MaxNodes
    /\ \E r \in {HnswAdd(index, id, vector, level)} :
           /\ index' = r.ix
           /\ last' = [op |-> "index_add", ok |-> r.ok, err |-> r.err, id |-> id,
                       vector |-> vector, known |-> (id \in DOMAIN index.nodes)]
    /\ UNCHANGED <<aux, data_path, entries, version, modified, files, proc, lastSaved>>

(* index.search(query, k) *)
IndexSearch(query, k) ==
    /\ \E r \in {HnswSearch(index, query, k)} :
           last' = [op |-> "index_search", ok |-> r.ok, err |-> r.err,
                    query |-> query, k |-> k, results |-> r.results]
    /\ UNCHANGED <<aux, data_path, entries, version, modified, index, files, proc, lastSaved>>

HnswQueries == {<<3, 4>>, <<5, 0>>, WrongDimEmbedding}
HnswNext ==
    \/ \E id \in Ids, level \in Levels :
          \E vector \in {EmbeddingOf(id), WrongDimEmbedding} : IndexAdd(id, vector, level)
    \/ \E query \in HnswQueries, k \in 1..MaxLimit : IndexSearch(query, k)

SpecHnsw == HnswInit /\ [][HnswNext]_vars

(* C6: for vectors of the index's dimension with distinct ids, whatever    *)
(* levels are drawn, every add returns Ok and the index then holds one     *)
(* node per add, and every search with a query of the right dimension      *)
(* returns Ok.                                                             *)
C6_AddAndSearchSucceed ==
    /\ (last.op = "index_add" /\ ~last.known /\ Len(last.vector) = index.dimension)
           => last.ok
    /\ (last.op = "index_search" /\ Len(last.query) = index.dimension)
           => last.ok


(***************************************************************************)
(* Hybrid search (vectordb/hybrid_search.rs).                              *)
(*                                                                         *)
(* Vector and keyword scores are in units of 1/One.  The weights are in    *)
(* tenths, so a combined score is in units of 1/(One * WeightUnit).  The   *)
(* BM25 score of a document for the query text is an input (the formula    *)
(* takes a logarithm of the document frequencies), and so is the order in  *)
(* which each HashMap is iterated.                                         *)
(***************************************************************************)
WeightUnit == 10

(* HybridSearchOptions; default(): vector_weight 0.7, keyword_weight 0.3 *)
HybridSearchOptions(base, enable_hybrid) ==
    [base |-> base, enable_hybrid |-> enable_hybrid,
     vector_weight |-> 7, keyword_weight |-> 3]

HybridSearchResult(document, vector_score, keyword_score, combined_score) ==
    [document |-> document, vector_score |-> vector_score,
     keyword_score |-> keyword_score, combined_score |-> combined_score]

(* the injective sequences over all of S: the orders a HashMap keyed by S  *)
(* can be iterated in                                                      *)
Perms(S) ==
    {f \in [1..Cardinality(S) -> S] : \A i, j \in 1..Cardinality(S) : i # j => f[i] # f[j]}

(* BM25Index::search: the documents with a positive score, collected in    *)
(* the order the scores map is iterated in, sorted by score and truncated  *)
BM25Search(keyword, scores_order, limit) ==
    Take(sort_by([i \in 1..Len(scores_order) |->
                     [id |-> scores_order[i], score |-> keyword[scores_order[i]]]]),
         limit)

RECURSIVE KeywordScoreFrom(_, _, _)
(* keyword_scores.get(doc_id).copied().unwrap_or(0.0) *)
KeywordScoreFrom(keyword_results, id, i) ==
    IF i > Len(keyword_results) THEN 0
    ELSE IF keyword_results[i].id = id THEN keyword_results[i].score
    ELSE KeywordScoreFrom(keyword_results, id, i + 1)

(* (keyword_score / (1.0 + keyword_score)).min(1.0) *)
NormalizedKeywordScore(keyword_score) ==
    Min((keyword_score * One) \div (One + keyword_score), One)

(* the HybridSearchResult both loops of hybrid_search push *)
Combined(document, vector_score, keyword_score, options) ==
    HybridSearchResult(document, vector_score, NormalizedKeywordScore(keyword_score),
        options.vector_weight * vector_score
            + options.keyword_weight * NormalizedKeywordScore(keyword_score))

(* the first loop of hybrid_search: one result per vector result *)
CombineVector(vector_results, keyword_results, options) ==
    [i \in 1..Len(vector_results) |->
        Combined(vector_results[i].document, vector_results[i].score,
                 KeywordScoreFrom(keyword_results, vector_results[i].document.id, 1),
                 options)]

RECURSIVE FindEntry(_, _, _)
(* storage.get_entries().iter().find(|e| e.id == doc_id) *)
FindEntry(es, id, i) ==
    IF i > Len(es) THEN [some |-> FALSE, v |-> 0]
    ELSE IF es[i].id = id THEN [some |-> TRUE, v |-> es[i]]
    ELSE FindEntry(es, id, i + 1)

RECURSIVE CombineKeywordOnly(_, _, _, _, _, _, _)
(* the second loop of hybrid_search, over the keyword scores in the order  *)
(* map_order iterates them: documents not yet among the results, found in  *)
(* the storage and passing the filters are pushed                          *)
CombineKeywordOnly(es, query_embedding, keyword_results, map_order, i, combined, options) ==
    LET doc_id == keyword_results[map_order[i]].id
        Step(entry) ==
            IF \/ \E j \in 1..Len(combined) : combined[j].document.id = doc_id
               \/ ~entry.some
               \/ ~PassesDocFilters(entry.v.document, options.base)
               \/ ~PassesMinScore(cosine_similarity(query_embedding, entry.v.vector),
                                  options.base)
            THEN combined
            ELSE Append(combined,
                        Combined(entry.v.document,
                                 cosine_similarity(query_embedding, entry.v.vector),
                                 keyword_results[map_order[i]].score, options))
    IN  IF i > Len(map_order) THEN combined
        ELSE CombineKeywordOnly(es, query_embedding, keyword_results, map_order, i + 1,
                                Step(FindEntry(es, doc_id, 1)), options)

RECURSIVE KeepTop(_, _, _, _)
(* for result in combined_results { heap.push(result);                     *)
(*     if heap.len() > limit * 2 { heap.pop(); } }                          *)
KeepTop(combined_results, i, heap, limit) ==
    LET Pushed(h) == IF Len(h) > limit * 2 THEN HeapPop(h).heap ELSE h
    IN  IF i > Len(combined_results) THEN heap
        ELSE KeepTop(combined_results, i + 1, Pushed(HeapPush(heap, combined_results[i])),
                     limit)

(* vector results as hybrid results with a zero keyword score *)
VectorOnly(vector_results) ==
    [i \in 1..Len(vector_results) |->
        HybridSearchResult(vector_results[i].document, vector_results[i].score, 0,
                           WeightUnit * vector_results[i].score)]

(* the candidates of hybrid_search: combined_results after both loops *)
CombinedResults(es, query_embedding, keyword, scores_order, map_order, options) ==
    LET vector_limit == options.base.limit * 3
        Both(vector_results, keyword_results) ==
            CombineKeywordOnly(es, query_embedding, keyword_results, map_order, 1,
                CombineVector(vector_results, keyword_results, options), options)
    IN  Both(search_documents(es, query_embedding,
                              [options.base EXCEPT !.limit = vector_limit]),
             BM25Search(keyword, scores_order, vector_limit))

(* hybrid_search *)
hybrid_search(es, query_embedding, keyword, scores_order, map_order, options) ==
    IF ~options.enable_hybrid
    THEN VectorOnly(search_documents(es, query_embedding, options.base))
    ELSE Take(sort_by(KeepTop(CombinedResults(es, query_embedding, keyword, scores_order,
                                              map_order, options),
                              1, <<>>, options.base.limit)),
              options.base.limit)

(***************************************************************************)
(* The hybrid-search specification: a storage of documents with distinct   *)
(* ids, and hybrid searches over it.                                       *)
(***************************************************************************)
MaxHybridEntries == 4      \* most entries the storage holds here
HybridIds == Ids \cup {"d"}
(* the BM25 scores a document can have for a query: 0.0 (no query term in  *)
(* it, or not positive) and 4.0                                            *)
KeywordScores == {0, 4 * One}
(* the query texts: their terms occur in none, one or both of a and d *)
KeywordHits == {"a", "d"}
KeywordInputs ==
    {keyword \in [HybridIds -> KeywordScores] :
        \A id \in HybridIds \ KeywordHits : keyword[id] = 0}
HybridOptionsList ==
    <<HybridSearchOptions(SearchOptions(1, NoFilter, NoFilter, NoFilter), TRUE),
      HybridSearchOptions(SearchOptions(MaxLimit, NoFilter, NoFilter, NoFilter), TRUE),
      HybridSearchOptions(SearchOptions(1, Some(16), NoFilter, Some("Documentation")), TRUE),
      HybridSearchOptions(SearchOptions(1, NoFilter, NoFilter, NoFilter), FALSE)>>

HybridInit ==
    /\ data_path = JsonPath
    /\ entries = <<>>
    /\ version = STORAGE_VERSION
    /\ modified = FALSE
    /\ index = NoIndex
    /\ files = [p \in Paths |-> Absent]
    /\ proc = Idle
    /\ last = NoCall
    /\ lastSaved = NotSaved
    /\ now = 0
    /\ crawler = NoCrawler
    /\ chunker = NoChunker
    /\ quantizer = NoQuantizer
    /\ service = NoService

(* storage.add_document(doc, embedding) for a document not yet stored *)
HybridAdd(id) ==
    /\ Len(entries) < MaxHybridEntries
    /\ id \notin EntryIds(entries)
    /\ entries' = StorageAdd(entries, id, EmbeddingOf(id))
    /\ modified' = TRUE
    /\ last' = [op |-> "add", ok |-> TRUE]
    /\ UNCHANGED <<aux, data_path, version, index, files, proc, lastSaved>>

(* hybrid_search(storage, query_embedding, query_text, options), the BM25  *)
(* scores of the documents for query_text being `keyword`                  *)
HybridSearch(query_embedding, keyword, options) ==
    /\ \E scores_order \in Perms({id \in EntryIds(entries) : keyword[id] > 0}) :
       \E map_order \in Perms(1..Min(Len(scores_order), options.base.limit * 3)) :
          last' = [op |-> "hybrid_search", ok |-> TRUE, options |-> options,
                   candidates |-> CombinedResults(entries, query_embedding, keyword,
                                                  scores_order, map_order, options),
                   results |-> hybrid_search(entries, query_embedding, keyword,
                                             scores_order, map_order, options)]
    /\ UNCHANGED <<aux, data_path, entries, version, modified, index, files, proc, lastSaved>>

HybridNext ==
    \/ \E id \in HybridIds : HybridAdd(id)
    \/ \E query_embedding \in Queries, keyword \in KeywordInputs,
          o \in 1..Len(HybridOptionsList) :
          HybridSearch(query_embedding, keyword, HybridOptionsList[o])

SpecHybrid == HybridInit /\ [][HybridNext]_vars

(* C4: with enable_hybrid, hybrid_search returns the `limit` candidates    *)
(* with the highest combined scores, in non-increasing order of combined   *)
(* score, however many candidates there are: fewer than k candidates score *)
(* above the k-th result.                                                  *)
C4_HybridReturnsTopLimit ==
    (last.op = "hybrid_search" /\ last.options.enable_hybrid) =>
        /\ Len(last.results) = Min(last.options.base.limit, Len(last.candidates))
        /\ \A k \in 1..(Len(last.results) - 1) :
               last.results[k].combined_score >= last.results[k + 1].combined_score
        /\ \A k \in 1..Len(last.results) :
               Cardinality({j \in 1..Len(last.candidates) :
                               last.candidates[j].combined_score
                                   > last.results[k].combined_score}) < k


(***************************************************************************)
(* Removal by age (vectordb/storage.rs, vectordb/mod.rs).                  *)
(*                                                                         *)
(* Time is counted in ticks of a third of a day since the epoch, and the   *)
(* u64 of the code is a word of Word values, the seconds of a SystemTime a *)
(* signed word: the arithmetic of the code is kept, at a smaller width.    *)
(***************************************************************************)
Word == 8              \* the values of a u64 (2^64 in the code)
DaySecs == 3           \* 24 * 60 * 60
TimeMin == 0 - 4       \* the earliest SystemTime (a signed word of seconds)
UNIX_EPOCH == 0

(* an entry with its time stamps: indexed_at, metadata.last_updated *)
TimedEntry(id, embedding, indexed_at, last_updated) ==
    [id |-> id, document |-> Document(id), vector |-> embedding,
     indexed_at |-> indexed_at, last_updated |-> last_updated]

(* max_age_days * 24 * 60 * 60 in u64: an overflowing product panics in a  *)
(* build with overflow checks and wraps in a build without                 *)
AgeSecs(max_age_days, overflow_checks) ==
    IF max_age_days * DaySecs < Word
    THEN [panic |-> FALSE, secs |-> max_age_days * DaySecs]
    ELSE IF overflow_checks THEN [panic |-> TRUE, secs |-> 0]
    ELSE [panic |-> FALSE, secs |-> (max_age_days * DaySecs) % Word]

(* SystemTime::now().checked_sub(d).unwrap_or(SystemTime::UNIX_EPOCH):     *)
(* checked_sub is None when the result is no SystemTime                    *)
CutoffTime(t, secs) == IF t - secs < TimeMin THEN UNIX_EPOCH ELSE t - secs

(* e.document.metadata.last_updated.unwrap_or(e.indexed_at) *)
EffectiveTime(e) == IF e.last_updated.some THEN e.last_updated.v ELSE e.indexed_at

(* VectorStorage::remove_documents_by_age, the cutoff computed *)
StorageRemoveByAge(es, cutoff_time) ==
    LET Kept(kept) == [entries |-> kept, removed_count |-> Len(es) - Len(kept)]
    IN  Kept(SelectSeq(es, LAMBDA e : EffectiveTime(e) > cutoff_time))

(* VectorDatabase::remove_documents_by_age at time t *)
DbRemoveDocumentsByAge(es, ix, t, max_age_days, overflow_checks, levels) ==
    LET Rebuilt(removed, r) ==
            [entries |-> removed.entries, ix |-> r.ix, ok |-> r.ok, panic |-> FALSE,
             removed_count |-> removed.removed_count]
        Removed(removed) ==
            IF ~ix.present
            THEN [entries |-> removed.entries, ix |-> ix, ok |-> TRUE, panic |-> FALSE,
                  removed_count |-> removed.removed_count]
            ELSE Rebuilt(removed, RebuildIndex(ix, removed.entries, levels))
        Age(age) ==
            IF age.panic
            THEN [entries |-> es, ix |-> ix, ok |-> FALSE, panic |-> TRUE, removed_count |-> 0]
            ELSE Removed(StorageRemoveByAge(es, CutoffTime(t, age.secs)))
    IN  Age(AgeSecs(max_age_days, overflow_checks))

(***************************************************************************)
(* The removal-by-age specification: a database whose entries carry their  *)
(* time stamps, a clock, and remove_documents_by_age.                      *)
(***************************************************************************)
MaxAgeEntries == 2     \* longest entry list explored here
AgeIds == {"a", "b"}
MaxNow == 3            \* last tick of the clock

AgeInit ==
    /\ data_path = JsonPath
    /\ entries = <<>>
    /\ version = STORAGE_VERSION
    /\ modified = FALSE
    /\ index \in {NoIndex, HnswNew(D, DefaultParams)}
    /\ files = [p \in Paths |-> Absent]
    /\ proc = Idle
    /\ last = NoCall
    /\ lastSaved = NotSaved
    /\ now = 1
    /\ crawler = NoCrawler
    /\ chunker = NoChunker
    /\ quantizer = NoQuantizer
    /\ service = NoService

(* time passes *)
AgeTick ==
    /\ now < MaxNow
    /\ now' = now + 1
    /\ UNCHANGED <<data_path, entries, version, modified, index, files, proc, last,
                   lastSaved, crawler, chunker, extra>>

(* db.add_document(doc, embedding) of a new document at time now, the      *)
(* document's last_updated absent or a time after the epoch                *)
AgeAdd(id, last_updated) ==
    /\ Len(entries) < MaxAgeEntries
    /\ id \notin EntryIds(entries)
    /\ \E r \in {IF index.present THEN HnswAdd(index, id, EmbeddingOf(id), 0)
                 ELSE [ok |-> TRUE, err |-> "", ix |-> index]} :
           /\ index' = r.ix
           /\ last' = [op |-> "add_document", ok |-> r.ok]
    /\ entries' = Append(entries, TimedEntry(id, EmbeddingOf(id), now, last_updated))
    /\ modified' = TRUE
    /\ UNCHANGED <<data_path, version, files, proc, lastSaved, now, crawler, chunker, extra>>

(* db.remove_documents_by_age(max_age_days) *)
RemoveDocumentsByAge(max_age_days, overflow_checks) ==
    /\ \E levels \in LevelDraws(IF index.present THEN Len(entries) ELSE 0) :
       \E r \in {DbRemoveDocumentsByAge(entries, index, now, max_age_days,
                                        overflow_checks, levels)} :
           /\ entries' = r.entries
           /\ index' = r.ix
           /\ modified' = (modified \/ r.removed_count > 0)
           /\ last' = [op |-> "remove_documents_by_age", ok |-> r.ok, panic |-> r.panic,
                       before |-> entries, max_age_days |-> max_age_days,
                       at |-> now, count |-> r.removed_count]
    /\ UNCHANGED <<data_path, version, files, proc, lastSaved, now, crawler, chunker, extra>>

AgeNext ==
    \/ AgeTick
    \/ \E id \in AgeIds :
          \E last_updated \in {NoFilter} \cup {Some(t) : t \in 1..now} : AgeAdd(id, last_updated)
    \/ \E max_age_days \in 0..(Word - 1), overflow_checks \in BOOLEAN :
          RemoveDocumentsByAge(max_age_days, overflow_checks)

SpecAge == AgeInit /\ [][AgeNext]_vars

(* the cutoff of the claim: now - max_age_days days, the epoch when that   *)
(* is before the epoch                                                     *)
ClaimedCutoff(t, max_age_days) ==
    IF t - max_age_days * DaySecs < UNIX_EPOCH THEN UNIX_EPOCH
    ELSE t - max_age_days * DaySecs

(* C11: for every max_age_days, remove_documents_by_age removes exactly    *)
(* the entries whose effective time stamp is not later than the cutoff     *)
(* now - max_age_days days (the epoch on underflow) and keeps the others.  *)
C11_RemoveByAgeExact ==
    last.op = "remove_documents_by_age" =>
        /\ ~last.panic
        /\ entries = SelectSeq(last.before,
               LAMBDA e : EffectiveTime(e) > ClaimedCutoff(last.at, last.max_age_days))


(***************************************************************************)
(* The crawler (crawler/engine.rs).                                        *)
(*                                                                         *)
(* A URL is the string the crawler holds.  The links found in a page are   *)
(* the strings Url::join(..).to_string() gives, so they are in the url     *)
(* crate's normal form; config.start_url is the string the caller gave.    *)
(* The request sent for a string is for the URL it parses to.              *)
(***************************************************************************)
MaxPages == 2          \* largest config.max_pages explored
MaxDepth == 2          \* largest config.max_depth explored
MaxChunks == 1         \* most chunks a page gives
MaxLag == 0            \* longest wait for the rate limiter
Backoff == 3           \* sleep(Duration::from_secs(10)) after a 429
DelayMs == 2           \* a non-zero config.delay_ms

CrawlUrls == {"http://h/", "http://h/a", "http://h/b"}
StartUrls == {"http://h", "http://h/"}

(* Url::parse(s).to_string(): what reqwest requests for the string s *)
UrlParse(s) == IF s = "http://h" THEN "http://h/" ELSE s

(* the href lists a page's content can hold, already joined to the base *)
LinkLists ==
    {<<>>} \cup {<<u>> : u \in CrawlUrls}
    \cup {<<"http://h/a", "http://h/b", "http://h/a">>, <<"http://h/blog/", "http://h/b">>}

(* what a request can meet: no response (send fails), a 429, or a body with *)
(* a status, its links, its chunks and what becomes of their embedding      *)
Responses ==
    {[status |-> st, links |-> <<>>, chunks |-> 0, embedded |-> "ok"] : st \in {0, 429}}
    \cup {[status |-> 200, links |-> l, chunks |-> n, embedded |-> "ok"] :
             l \in LinkLists, n \in {0, MaxChunks}}
    \cup {[status |-> 200, links |-> <<>>, chunks |-> MaxChunks, embedded |-> e] :
             e \in {"embed_err", "wrong_dim"}}
    \cup {[status |-> 404, links |-> l, chunks |-> MaxChunks, embedded |-> "ok"] :
             l \in LinkLists}

CrawlConfigs ==
    [start_url : StartUrls, mode : {"SinglePage", "Section", "FullDocs"},
     max_pages : 0..MaxPages, max_depth : 0..MaxDepth, delay_ms : {DelayMs},
     exclude : {{"http://h/blog/"}}]

(* Crawler::new *)
CrawlerNew(config) ==
    [present |-> TRUE, config |-> config, visited_urls |-> {}, url_queue |-> <<>>,
     progress |-> [pages_crawled |-> 0, pages_queued |-> 0, pages_failed |-> 0],
     crawled_urls |-> <<>>, at |-> "new", requests |-> <<>>]

(* a crawl that breaks at no page count *)
NoPageLimit(c) == FALSE

(* crawled_urls.len() >= self.config.max_pages *)
ReachedMaxPages(c) == Len(c.crawled_urls) >= c.config.max_pages

(* a loop that does not sleep between its turns *)
NoDelay(config) == 0

(* sleep(Duration::from_millis(self.config.delay_ms)): the time it takes *)
SleepDelay(config) == config.delay_ms

(* a crawler that follows the links of every page *)
FollowAllLinks(config, current_depth) == TRUE

should_follow_links(config, current_depth) ==
    IF config.mode = "SinglePage" THEN FALSE
    ELSE IF config.mode = "Section" THEN current_depth = 0
    ELSE current_depth < config.max_depth

(* should_crawl_url: the URLs holding an exclude pattern are config.exclude *)
should_crawl_url(config, url) == url \notin config.exclude

(* a loop that queues every new URL, visited or queued before or not *)
QueueAllUrls(queue, visited, new_urls, depth, i) ==
    queue \o [k \in 1..(Len(new_urls) + 1 - i) |-> [url |-> new_urls[k + i - 1], depth |-> depth]]

(* the loop of extract_and_queue_urls that adds new_urls[i..] to the queue *)
RECURSIVE QueueUrls(_, _, _, _, _)
QueueUrls(queue, visited, new_urls, depth, i) ==
    IF i > Len(new_urls) THEN queue
    ELSE IF new_urls[i] \notin visited /\ \A k \in 1..Len(queue) : queue[k].url # new_urls[i]
    THEN QueueUrls(Append(queue, [url |-> new_urls[i], depth |-> depth]),
                   visited, new_urls, depth, i + 1)
    ELSE QueueUrls(queue, visited, new_urls, depth, i + 1)

extract_and_queue_urls(config, queue, visited, links, next_depth) ==
    QueueUrls(queue, visited,
              SelectSeq(links, LAMBDA u : should_crawl_url(config, u)), next_depth, 1)

(* format!("{}_chunk_{}", url, i) *)
DocId(url, i) == url \o "_chunk_" \o ToString(i)

(* the loop of crawl_page over chunks[i..]: embed, then vector_db.add_document *)
RECURSIVE IngestChunks(_, _, _, _, _)
IngestChunks(es, ix, url, response, i) ==
    LET vector == IF response.embedded = "wrong_dim" THEN WrongDimEmbedding
                  ELSE EmbeddingOf(url)
        stored == Append(es, [id |-> DocId(url, i), vector |-> vector,
                              document |-> [id |-> DocId(url, i), url |-> url,
                                            metadata_content_type |-> "Documentation"]])
        Added(r) == IF r.ok THEN IngestChunks(stored, r.ix, url, response, i + 1)
                    ELSE [ok |-> FALSE, entries |-> stored, ix |-> ix]
    IN  IF i >= response.chunks THEN [ok |-> TRUE, entries |-> es, ix |-> ix]
        ELSE IF response.embedded = "embed_err" THEN [ok |-> FALSE, entries |-> es, ix |-> ix]
        ELSE IF ~ix.present THEN IngestChunks(stored, ix, url, response, i + 1)
        ELSE Added(HnswAdd(ix, DocId(url, i), vector, 0))

(* crawl_page: Ok with the page's links, or Err; slept is the back-off sleep *)
crawl_page(es, ix, url, response) ==
    LET Ingested(r) == [ok |-> r.ok, entries |-> r.entries, ix |-> r.ix, slept |-> 0,
                        links |-> IF r.ok THEN response.links ELSE <<>>]
    IN  IF response.status = 0
        THEN [ok |-> FALSE, entries |-> es, ix |-> ix, slept |-> 0, links |-> <<>>]
        ELSE IF response.status = 429
        THEN [ok |-> FALSE, entries |-> es, ix |-> ix, slept |-> Backoff, links |-> <<>>]
        ELSE Ingested(IngestChunks(es, ix, url, response, 0))

(***************************************************************************)
(* The crawl specification: one Crawler, built for some config, runs       *)
(* crawl once against a vector database; each step is one turn of the      *)
(* while loop of crawl.  crawler.requests is the history of the requests   *)
(* sent, for the claims.                                                   *)
(***************************************************************************)
CrawlInit ==
    /\ data_path = JsonPath
    /\ entries = <<>>
    /\ version = STORAGE_VERSION
    /\ modified = FALSE
    /\ index = HnswNew(D, DefaultParams)
    /\ files = [p \in Paths |-> Absent]
    /\ proc = Idle
    /\ last = NoCall
    /\ lastSaved = NotSaved
    /\ now = 0
    /\ crawler = NoCrawler
    /\ chunker = NoChunker
    /\ quantizer = NoQuantizer
    /\ service = NoService

(* Crawler::new(config) *)
NewCrawler(config) ==
    /\ ~crawler.present
    /\ crawler' = CrawlerNew(config)
    /\ UNCHANGED <<data_path, entries, version, modified, index, files, proc, last,
                   lastSaved, now, chunker, extra>>

(* crawl, up to its loop: the start URL is queued at depth 0 *)
CrawlBegin ==
    /\ crawler.present /\ crawler.at = "new"
    /\ crawler' = [crawler EXCEPT
           !.url_queue = Append(@, [url |-> crawler.config.start_url, depth |-> 0]),
           !.at = "loop"]
    /\ UNCHANGED <<data_path, entries, version, modified, index, files, proc, last,
                   lastSaved, now, chunker, extra>>

(* the loop of crawl finds the queue empty, or the page limit reached:     *)
(* crawl returns Ok(crawled_urls)                                          *)
CrawlReturn ==
    /\ crawler.present /\ crawler.at = "loop"
    /\ \/ crawler.url_queue = <<>>
       \/ ReachedMaxPages(crawler)
    /\ crawler' = [crawler EXCEPT !.url_queue = IF @ = <<>> THEN @ ELSE Tail(@),
                                  !.at = "returned"]
    /\ last' = [op |-> "crawl", ok |-> TRUE, urls |-> crawler.crawled_urls,
                left |-> crawler.url_queue]
    /\ UNCHANGED <<data_path, entries, version, modified, index, files, proc,
                   lastSaved, now, chunker, extra>>

(* a turn of the loop whose URL is deeper than max_depth: continue *)
CrawlSkip ==
    /\ crawler.present /\ crawler.at = "loop"
    /\ crawler.url_queue # <<>>
    /\ ~ReachedMaxPages(crawler)
    /\ Head(crawler.url_queue).depth > crawler.config.max_depth
    /\ crawler' = [crawler EXCEPT !.url_queue = Tail(@)]
    /\ UNCHANGED <<data_path, entries, version, modified, index, files, proc, last,
                   lastSaved, now, chunker, extra>>

(* a turn of the loop that requests a page: the limiter lets the request   *)
(* start after wait, crawl_page runs, then crawl sleeps delay_ms           *)
CrawlPage(response, wait) ==
    /\ crawler.present /\ crawler.at = "loop"
    /\ crawler.url_queue # <<>>
    /\ ~ReachedMaxPages(crawler)
    /\ Head(crawler.url_queue).depth <= crawler.config.max_depth
    /\ \E next \in {Head(crawler.url_queue)} :
       \E r \in {crawl_page(entries, index, next.url, response)} :
       \E queue \in {IF r.ok /\ should_follow_links(crawler.config, next.depth)
                     THEN extract_and_queue_urls(crawler.config, Tail(crawler.url_queue),
                              crawler.visited_urls \cup {next.url}, r.links, next.depth + 1)
                     ELSE Tail(crawler.url_queue)} :
           /\ crawler' = [crawler EXCEPT
                  !.visited_urls = @ \cup {next.url},
                  !.url_queue = queue,
                  !.crawled_urls = IF r.ok THEN Append(@, next.url) ELSE @,
                  !.progress = [pages_crawled |-> @.pages_crawled + (IF r.ok THEN 1 ELSE 0),
                                pages_failed |-> @.pages_failed + (IF r.ok THEN 0 ELSE 1),
                                pages_queued |->
                                    IF r.ok /\ should_follow_links(crawler.config, next.depth)
                                    THEN Len(queue) ELSE @.pages_queued],
                  !.requests = Append(@, [url |-> next.url, sent |-> UrlParse(next.url),
                                          depth |-> next.depth, start |-> now + wait,
                                          status |-> response.status, ok |-> r.ok,
                                          stored |-> Len(r.entries) - Len(entries)])]
           /\ entries' = r.entries
           /\ index' = r.ix
           /\ modified' = (modified \/ Len(r.entries) > Len(entries))
           /\ now' = now + wait + r.slept + SleepDelay(crawler.config)
    /\ UNCHANGED <<data_path, version, files, proc, last, lastSaved, chunker, extra>>

CrawlNext ==
    \/ \E config \in CrawlConfigs : NewCrawler(config)
    \/ CrawlBegin
    \/ CrawlReturn
    \/ CrawlSkip
    \/ \E response \in Responses, wait \in 0..MaxLag : CrawlPage(response, wait)

SpecCrawl == CrawlInit /\ [][CrawlNext]_vars


(* the number of pages in crawled_urls when request i was sent *)
CrawledBefore(i) == Cardinality({k \in 1..(i - 1) : crawler.requests[k].ok})

(* C12: whatever the pages answer, no page is requested once crawled_urls  *)
(* holds max_pages entries, and neither crawled_urls nor the list crawl    *)
(* returns ever holds more than max_pages URLs.                            *)
C12_MaxPagesRespected ==
    crawler.present =>
        /\ Len(crawler.crawled_urls) <= crawler.config.max_pages
        /\ \A i \in DOMAIN crawler.requests : CrawledBefore(i) < crawler.config.max_pages
        /\ last.op = "crawl" => Len(last.urls) <= crawler.config.max_pages

(* a crawl of max_pages = MaxPages pages, one request failed, that left a  *)
(* queued URL unrequested when it returned at the limit                    *)
C12_Witness ==
    /\ crawler.present /\ last.op = "crawl"
    /\ crawler.config.max_pages = MaxPages
    /\ Len(last.urls) = MaxPages
    /\ last.left # <<>>
    /\ crawler.progress.pages_failed > 0


(* C13: within one crawl no URL is requested more than once, the request   *)
(* having succeeded or failed, and the list crawl returns has no           *)
(* duplicate.                                                              *)
C13_NoUrlFetchedTwice ==
    crawler.present =>
        /\ \A i, j \in DOMAIN crawler.requests :
               crawler.requests[i].sent = crawler.requests[j].sent => i = j
        /\ \A i, j \in DOMAIN crawler.crawled_urls :
               crawler.crawled_urls[i] = crawler.crawled_urls[j] => i = j


(* C14: no page deeper than max_depth is requested; in SinglePage mode     *)
(* only the start URL is requested; a turn of the loop adds links to the   *)
(* queue only from the depth-0 page in Section mode and only from a page   *)
(* of depth < max_depth in FullDocs mode.                                  *)
C14_DepthAndModes ==
    [][(crawler.present /\ crawler.at = "loop") =>
          /\ \A i \in DOMAIN crawler'.requests :
                 /\ crawler'.requests[i].depth <= crawler.config.max_depth
                 /\ crawler.config.mode = "SinglePage" =>
                        crawler'.requests[i].url = crawler.config.start_url
          /\ (crawler.url_queue # <<>> /\ Len(crawler'.url_queue) >= Len(crawler.url_queue)) =>
                 /\ crawler.config.mode # "SinglePage"
                 /\ crawler.config.mode = "Section" => Head(crawler.url_queue).depth = 0
                 /\ crawler.config.mode = "FullDocs" =>
                        Head(crawler.url_queue).depth < crawler.config.max_depth]_vars

(* a Section crawl with max_depth = 0 that queued the start page's links   *)
(* and returned having requested the start page alone                      *)
C14_Witness ==
    /\ crawler.present /\ crawler.at = "returned"
    /\ crawler.config.mode = "Section" /\ crawler.config.max_depth = 0
    /\ crawler.config.max_pages = MaxPages
    /\ crawler.progress.pages_queued > 0
    /\ Len(crawler.requests) = 1 /\ Len(crawler.crawled_urls) = 1


(* the entries stored for the documents of url *)
DocumentsOf(url) == SelectSeq(entries, LAMBDA e : e.document.url = url)

(* C15: a page answered with an HTTP status >= 400 other than 429 is       *)
(* counted as failed, is not in crawled_urls, and no document is stored    *)
(* for it.                                                                 *)
C15_HttpErrorCountsAsFailed ==
    crawler.present =>
        \A i \in DOMAIN crawler.requests :
            (crawler.requests[i].status >= 400 /\ crawler.requests[i].status # 429) =>
                /\ ~crawler.requests[i].ok
                /\ \A k \in DOMAIN crawler.crawled_urls :
                       crawler.crawled_urls[k] # crawler.requests[i].url
                /\ DocumentsOf(crawler.requests[i].url) = <<>>
                /\ crawler.progress.pages_failed >= 1

(* C16: when the embedder or add_document fails while a page's chunks are  *)
(* ingested, crawl stops: that request is the last one of the crawl, and   *)
(* crawl returns an error.                                                 *)
C16_IngestFailureStopsCrawl ==
    crawler.present =>
        \A i \in DOMAIN crawler.requests :
            (crawler.requests[i].status = 200 /\ ~crawler.requests[i].ok) =>
                /\ i = Len(crawler.requests)
                /\ crawler.at = "returned" => (last.op = "crawl" /\ ~last.ok)


C18_RequestsDelayApart ==
    crawler.present =>
        \A i \in DOMAIN crawler.requests :
            i > 1 => crawler.requests[i].start - crawler.requests[i - 1].start
                         >= crawler.config.delay_ms

(* a crawl whose second request started exactly delay_ms after the first,  *)
(* failed, and was followed by a third                                     *)
C18_Witness ==
    /\ crawler.present
    /\ crawler.config.delay_ms = DelayMs
    /\ Len(crawler.requests) = 3
    /\ crawler.requests[2].start - crawler.requests[1].start = DelayMs
    /\ ~crawler.requests[2].ok
    /\ crawler.requests[3].start - crawler.requests[2].start = DelayMs


(***************************************************************************)
(* The chunkers (crawler/chunker.rs, vectordb/chunking.rs).                *)
(*                                                                         *)
(* A text is a sequence of characters over Chars: an upper-case letter, a  *)
(* lower-case letter, a blank and a line feed.  The TextChunker is taken   *)
(* on texts without a header line that fit one chunk, the EnhancedChunker  *)
(* with the FixedSizeOverlap strategy.                                     *)
(***************************************************************************)
MaxTextLen == 3        \* longest text explored
MaxCalls == 2          \* most chunk_text calls on one chunker
MaxChunkSize == 2      \* largest chunk_size of FixedSizeOverlap explored
MaxOverlap == 3        \* largest overlap of FixedSizeOverlap explored
HashWord == 61         \* the values of a u64 hash
Usize == 16            \* the values of a usize
MinChunkSize == 1      \* TextChunker.min_chunk_size (100 in the code)

Chars == {"A", "a", " ", "\n"}
Texts == UNION {[1..n -> Chars] : n \in 0..MaxTextLen}

IsWhitespace(c) == c \in {" ", "\n"}
IsBoundary(c) == c = "\n"          \* ['.', '!', '?', '\n']

(* str::trim *)
Trim(s) ==
    LET solid == {i \in 1..Len(s) : ~IsWhitespace(s[i])}
    IN  IF solid = {} THEN <<>>
        ELSE SubSeq(s, CHOOSE i \in solid : \A k \in solid : i <= k,
                       CHOOSE i \in solid : \A k \in solid : i >= k)

(* str::to_lowercase *)
to_lowercase(s) == [i \in 1..Len(s) |-> IF s[i] = "A" THEN "a" ELSE s[i]]

(* split_whitespace().collect::<Vec<_>>().join(" ") *)
JoinWords(s) ==
    LET t == Trim(s)
        kept == SelectSeq([i \in 1..Len(t) |-> i],
                          LAMBDA i : ~IsWhitespace(t[i]) \/ ~IsWhitespace(t[i - 1]))
    IN  [k \in 1..Len(kept) |-> IF IsWhitespace(t[kept[k]]) THEN " " ELSE t[kept[k]]]

(* DefaultHasher over the characters of s: s.hash(&mut hasher); finish() *)
RECURSIVE HashFrom(_, _, _)
HashFrom(s, i, h) ==
    IF i > Len(s) THEN h
    ELSE HashFrom(s, i + 1,
                  (7 * h + (CASE s[i] = "A" -> 1 [] s[i] = "a" -> 2 [] s[i] = " " -> 3
                              [] OTHER -> 4)) % HashWord)

(* TextChunker::calculate_content_hash *)
calculate_content_hash(content) == HashFrom(JoinWords(to_lowercase(Trim(content))), 1, 0)

(* EnhancedChunker::hash_content *)
hash_content(content) == HashFrom(content, 1, 0)

(* TextChunker::is_quality_content: no text over Chars holds punctuation   *)
(* or a navigation word, and a text of two lines passes the line test      *)
is_quality_content(content) ==
    LET trimmed == Trim(content)
        alpha_count == Len(SelectSeq(trimmed, LAMBDA c : c \in {"A", "a"}))
    IN  /\ Len(trimmed) >= MinChunkSize
        /\ alpha_count >= Len(trimmed) \div 3

(* TextChunker::chunk_text of a text that is one section and one chunk:    *)
(* split_by_headers, chunk_section, add_overlap, deduplicate_and_filter    *)
TextChunkText(seen, text) ==
    IF Trim(text) = <<>> \/ ~is_quality_content(text)
       \/ calculate_content_hash(text) \in seen
    THEN [chunks |-> <<>>, seen |-> seen, panic |-> FALSE]
    ELSE [chunks |-> <<text>>, seen |-> seen \cup {calculate_content_hash(text)},
          panic |-> FALSE]

(* EnhancedChunker::create_chunk_if_unique, chunks the list it is pushed on *)
create_chunk_if_unique(seen, chunks, content) ==
    LET trimmed == Trim(content)
    IN  IF trimmed = <<>> \/ hash_content(trimmed) \in seen
        THEN [chunks |-> chunks, seen |-> seen, panic |-> FALSE]
        ELSE [chunks |-> Append(chunks, trimmed),
              seen |-> seen \cup {hash_content(trimmed)}, panic |-> FALSE]

(* the end of the chunk that starts at start (both counted from 0) *)
ChunkEnd(text, start, chunk_size) ==
    LET potential_end == start + chunk_size
        boundaries == {i \in (start + 1)..potential_end : IsBoundary(text[i])}
    IN  IF potential_end >= Len(text) THEN Len(text)
        ELSE IF boundaries = {} THEN potential_end
        ELSE CHOOSE i \in boundaries : \A k \in boundaries : i >= k

(* the while loop of chunk_fixed_size from start on; end - overlap is a    *)
(* usize: below zero it panics with overflow checks and wraps without      *)
RECURSIVE FixedSizeFrom(_, _, _, _, _, _)
FixedSizeFrom(text, chunk_size, overlap, start, made, overflow_checks) ==
    LET Next(end, r) ==
            IF end = Len(text) THEN r
            ELSE IF end < overlap /\ overflow_checks
            THEN [chunks |-> <<>>, seen |-> r.seen, panic |-> TRUE]
            ELSE FixedSizeFrom(text, chunk_size, overlap,
                     IF (end - overlap) % Usize > start + 1
                     THEN (end - overlap) % Usize ELSE start + 1,
                     r, overflow_checks)
        Cut(end) ==
            Next(end, create_chunk_if_unique(made.seen, made.chunks,
                                             SubSeq(text, start + 1, end)))
    IN  IF start >= Len(text) THEN made
        ELSE Cut(ChunkEnd(text, start, chunk_size))

(* EnhancedChunker::chunk_text with FixedSizeOverlap { chunk_size, overlap } *)
chunk_fixed_size(seen, text, chunk_size, overlap, overflow_checks) ==
    IF Len(text) <= chunk_size THEN create_chunk_if_unique(seen, <<>>, text)
    ELSE FixedSizeFrom(text, chunk_size, overlap, 0,
                       [chunks |-> <<>>, seen |-> seen, panic |-> FALSE], overflow_checks)

(***************************************************************************)
(* The chunker specification: one chunker and a sequence of chunk_text     *)
(* calls on it; chunker.emitted is the history of the chunks returned.     *)
(***************************************************************************)
ChunkInit ==
    /\ data_path = JsonPath
    /\ entries = <<>>
    /\ version = STORAGE_VERSION
    /\ modified = FALSE
    /\ index = NoIndex
    /\ files = [p \in Paths |-> Absent]
    /\ proc = Idle
    /\ last = NoCall
    /\ lastSaved = NotSaved
    /\ now = 0
    /\ crawler = NoCrawler
    /\ chunker = NoChunker
    /\ quantizer = NoQuantizer
    /\ service = NoService

(* TextChunker::new() or EnhancedChunker::new(FixedSizeOverlap { .. }) *)
NewChunker(kind, chunk_size, overlap) ==
    /\ ~chunker.present
    /\ chunker' = [present |-> TRUE, kind |-> kind, chunk_size |-> chunk_size,
                   overlap |-> overlap, seen_content_hashes |-> {}, emitted |-> <<>>,
                   calls |-> 0, panicked |-> FALSE]
    /\ UNCHANGED <<data_path, entries, version, modified, index, files, proc, last,
                   lastSaved, now, crawler, extra>>

(* chunker.chunk_text(text) *)
ChunkText(text, overflow_checks) ==
    /\ chunker.present /\ ~chunker.panicked
    /\ chunker.calls < MaxCalls
    /\ \E r \in {IF chunker.kind = "TextChunker"
                 THEN TextChunkText(chunker.seen_content_hashes, text)
                 ELSE chunk_fixed_size(chunker.seen_content_hashes, text,
                          chunker.chunk_size, chunker.overlap, overflow_checks)} :
           /\ chunker' = [chunker EXCEPT !.seen_content_hashes = r.seen,
                                         !.emitted = @ \o r.chunks,
                                         !.calls = @ + 1,
                                         !.panicked = r.panic]
           /\ last' = [op |-> "chunk_text", text |-> text, chunks |-> r.chunks,
                       panic |-> r.panic]
    /\ UNCHANGED <<data_path, entries, version, modified, index, files, proc,
                   lastSaved, now, crawler, extra>>

ChunkNext ==
    \/ NewChunker("TextChunker", 0, 0)
    \/ \E chunk_size \in 1..MaxChunkSize, overlap \in 0..MaxOverlap :
          NewChunker("EnhancedChunker", chunk_size, overlap)
    \/ \E text \in Texts, overflow_checks \in BOOLEAN : ChunkText(text, overflow_checks)

SpecChunk == ChunkInit /\ [][ChunkNext]_vars

(* the hash of the lower-case, whitespace-normalised content *)
NormalizedHash(content) == HashFrom(JoinWords(to_lowercase(content)), 1, 0)

(* C19: across the chunk_text calls on one chunker, no two emitted chunks  *)
(* have the same hash of their lower-case, whitespace-normalised content.  *)
C19_NoDuplicateChunks ==
    chunker.present =>
        \A i, j \in DOMAIN chunker.emitted :
            NormalizedHash(chunker.emitted[i]) = NormalizedHash(chunker.emitted[j]) => i = j


(* the ids the index gives for the last search, when it gives any *)
IndexSearchIds ==
    LET Found(r) == IF r.ok THEN {r.results[i].id : i \in DOMAIN r.results} ELSE {}
    IN  Found(HnswSearch(index, last.query, last.options.limit))

(* C20: when the index returns an id for which the store holds no          *)
(* document, VectorDatabase.search returns an error, not a result list.    *)
C20_MissingDocumentIsError ==
    (last.op = "search" /\ index.present) =>
        ((IndexSearchIds \ EntryIds(entries)) # {} => ~last.ok)


(* C23: after any sequence of index.add calls the entry point names a node *)
(* whose max_level is the index's max_level, which is the highest level of *)
(* the nodes inserted.                                                     *)
C23_EntryPointIsHighest ==
    (index.present /\ DOMAIN index.nodes # {}) =>
        /\ index.entry_point \in DOMAIN index.nodes
        /\ index.nodes[index.entry_point].max_level = index.max_level
        /\ \A id \in DOMAIN index.nodes : index.nodes[id].max_level <= index.max_level


(* the results of a beam search are the ef nearest of the entries admitted *)
EfNearest(r, ef) ==
    /\ Len(r.results) <= ef
    /\ Len(r.results) = IF Cardinality(r.admitted) < ef THEN Cardinality(r.admitted) ELSE ef
    /\ \A i \in DOMAIN r.results :
           /\ r.results[i] \in r.admitted
           /\ \A x \in r.admitted :
                  (\A k \in DOMAIN r.results : r.results[k].id # x.id) =>
                      r.results[i].distance <= x.distance

(* C24: in search_neighbors the best-so-far set never holds more than ef   *)
(* entries and an eviction removes the entry farthest from the query, so   *)
(* the set returned is the ef nearest of the entries admitted.             *)
C24_BeamKeepsEfNearest ==
    (index.present /\ index.entry_point \in DOMAIN index.nodes) =>
        \A query \in {<<3, 4>>, <<5, 0>>}, ef \in 1..MaxLimit :
            LET Nearest(r) == r.ok => EfNearest(r, ef)
            IN  Nearest(search_neighbors(index, query, index.entry_point, ef, 0))

(* C25: after any sequence of inserts every node's neighbour list holds at *)
(* most M0 ids at level 0 and at most M ids at each level >= 1, repeats no *)
(* id and never holds the node's own id.                                   *)
C25_NeighbourListsCapped ==
    index.present =>
        \A id \in DOMAIN index.nodes :
            \A l \in 0..index.nodes[id].max_level :
                LET conns == LayerConnections(index.nodes[id], l)
                    cap == IF l = 0 THEN index.params.max_connections_level0
                           ELSE index.params.max_connections
                IN  /\ Len(conns) <= cap
                    /\ \A i, j \in DOMAIN conns : conns[i] = conns[j] => i = j
                    /\ \A i \in DOMAIN conns : conns[i] # id

(* three nodes on level 1 under the small parameters, the last insert      *)
(* having met a neighbour whose level-1 list was already full              *)
C25_Witness ==
    /\ index.present
    /\ index.params = SmallParams
    /\ Cardinality(DOMAIN index.nodes) = MaxNodes
    /\ \A id \in DOMAIN index.nodes : index.nodes[id].max_level = 1
    /\ last.op = "index_add" /\ last.ok
    /\ \E id \in DOMAIN index.nodes \ {last.id} :
           /\ Len(LayerConnections(index.nodes[id], 1)) = SmallParams.max_connections
           /\ Contains(LayerConnections(index.nodes[last.id], 1), id)

(* C26: is_modified() tells whether the data changed since the last save:  *)
(* false for a fresh store and right after a successful save, true after   *)
(* an add, a removal or a clear that has not been saved yet.               *)
C26_IsModifiedSinceSave ==
    /\ (last = NoCall \/ last.op = "new") => ~modified
    /\ (last.op = "save" /\ last.ok) => ~modified
    /\ (last.op \in {"add", "clear"} /\ last.ok) => modified
    /\ (last.op = "remove_by_source" /\ last.ok /\ last.count > 0) => modified

RECURSIVE EndsBelowOverlap(_, _, _, _)
(* whether the loop of chunk_fixed_size, followed from `start`, comes to   *)
(* an iteration that evaluates end - overlap with end < overlap            *)
EndsBelowOverlap(text, chunk_size, overlap, start) ==
    LET Step(end) ==
            IF end = Len(text) THEN FALSE
            ELSE IF end < overlap THEN TRUE
            ELSE EndsBelowOverlap(text, chunk_size, overlap,
                     IF end - overlap > start + 1 THEN end - overlap ELSE start + 1)
    IN  IF start >= Len(text) THEN FALSE
        ELSE Step(ChunkEnd(text, start, chunk_size))

(* C27: fixed-size chunking never evaluates end - overlap with end <       *)
(* overlap, for every text, every chunk_size >= 1 and every overlap: a     *)
(* chunk_text call of an EnhancedChunker neither panics on the unsigned    *)
(* subtraction nor wraps it.                                               *)
C27_NoUnsignedUnderflow ==
    (chunker.present /\ chunker.kind = "EnhancedChunker" /\ last.op = "chunk_text") =>
        /\ ~last.panic
        /\ Len(last.text) > chunker.chunk_size =>
               ~EndsBelowOverlap(last.text, chunker.chunk_size, chunker.overlap, 0)

(***************************************************************************)
(* VectorQuantizer (vectordb/quantization.rs).  A calibrated maximum is a  *)
(* record [v, eps]: the fixed-point value v, plus 1e-5 when eps is set.    *)
(***************************************************************************)
Byte == 256
NoId == [some |-> FALSE, v |-> ""]
NoValues == [some |-> FALSE, v |-> <<>>]

(* VectorQuantizer::new(method, dimension) *)
QuantizerNew(method, dimension) ==
    [present |-> TRUE, method |-> method, dimension |-> dimension,
     min_values |-> NoValues, max_values |-> NoValues,
     quantization_cache |-> [x \in {} |-> <<>>]]

(* the minimum and the maximum of dimension i over the vectors, the       *)
(* maximum raised by 1e-5 where the range is below 1e-6                    *)
MinOfDim(vectors, i) ==
    CHOOSE m \in {vectors[k][i] : k \in DOMAIN vectors} :
        \A k \in DOMAIN vectors : m <= vectors[k][i]
MaxOfDim(vectors, i) ==
    LET m == CHOOSE x \in {vectors[k][i] : k \in DOMAIN vectors} :
                 \A k \in DOMAIN vectors : x >= vectors[k][i]
    IN  [v |-> m, eps |-> (m = MinOfDim(vectors, i))]

(* VectorQuantizer::initialize *)
initialize(q, vectors) ==
    IF q.method = "None" THEN [ok |-> TRUE, err |-> "", q |-> q]
    ELSE IF vectors = <<>>
    THEN [ok |-> FALSE, err |-> "Cannot initialize quantizer with empty vector set", q |-> q]
    ELSE IF \E k \in DOMAIN vectors : Len(vectors[k]) # q.dimension
    THEN [ok |-> FALSE, err |-> "Vector dimension mismatch", q |-> q]
    ELSE IF q.method = "ProductQuantization"
    THEN [ok |-> FALSE, err |-> "Product quantization not yet implemented", q |-> q]
    ELSE [ok |-> TRUE, err |-> "",
          q |-> [q EXCEPT
                   !.min_values = Some([i \in 1..q.dimension |-> MinOfDim(vectors, i)]),
                   !.max_values = Some([i \in 1..q.dimension |-> MaxOfDim(vectors, i)])]]

(* val.to_le_bytes(): the four bytes of the value, low byte first *)
to_le_bytes(val) ==
    LET w == IF val < 0 THEN val + Byte * Byte ELSE val
        high == IF val < 0 THEN Byte - 1 ELSE 0
    IN  <<w % Byte, (w \div Byte) % Byte, high, high>>

RECURSIVE RawBytes(_, _)
RawBytes(values, i) ==
    IF i > Len(values) THEN <<>> ELSE to_le_bytes(values[i]) \o RawBytes(values, i + 1)

(* ((val - min) / range * 255.0).round() as u8: the cast saturates *)
Scalar8(val, min, max) ==
    IF max.v < min \/ (max.v = min /\ ~max.eps) THEN 0
    ELSE IF val <= min THEN 0
    ELSE IF max.v = min THEN Byte - 1
    ELSE Min(Byte - 1,
             (2 * (Byte - 1) * (val - min) + (max.v - min)) \div (2 * (max.v - min)))

(* quantize after the cache lookup: the dimension check and the encoding   *)
(* of the vector under the current calibration                            *)
Encode(q, vector) ==
    IF Len(vector) # q.dimension
    THEN [ok |-> FALSE, err |-> "Vector dimension mismatch", bytes |-> <<>>]
    ELSE IF q.method = "None"
    THEN [ok |-> TRUE, err |-> "", bytes |-> RawBytes(vector, 1)]
    ELSE IF q.method = "ProductQuantization"
    THEN [ok |-> FALSE, err |-> "Product quantization not yet implemented", bytes |-> <<>>]
    ELSE IF ~q.min_values.some
    THEN [ok |-> FALSE, err |-> "Quantizer not initialized with min_values", bytes |-> <<>>]
    ELSE IF ~q.max_values.some
    THEN [ok |-> FALSE, err |-> "Quantizer not initialized with max_values", bytes |-> <<>>]
    ELSE [ok |-> TRUE, err |-> "",
          bytes |-> [i \in 1..Len(vector) |->
                        Scalar8(vector[i], q.min_values.v[i], q.max_values.v[i])]]

(* quantize with the cache consulted first *)
CachedOrEncode(q, vector, id) ==
    IF id.some /\ id.v \in DOMAIN q.quantization_cache
    THEN [ok |-> TRUE, err |-> "", bytes |-> q.quantization_cache[id.v]]
    ELSE Encode(q, vector)

(* VectorQuantizer::quantize(vector, id) *)
quantize(q, vector, id) ==
    LET Done(r) ==
            [ok |-> r.ok, err |-> r.err, bytes |-> r.bytes,
             q |-> IF r.ok /\ id.some
                   THEN [q EXCEPT !.quantization_cache =
                            [x \in DOMAIN q.quantization_cache \cup {id.v} |->
                                IF x = id.v THEN r.bytes ELSE q.quantization_cache[x]]]
                   ELSE q]
    IN  Done(CachedOrEncode(q, vector, id))

(***************************************************************************)
(* The quantizer specification: one VectorQuantizer, calibrations and      *)
(* quantize calls.                                                         *)
(***************************************************************************)
QuantMethods == {"None", "Scalar8Bit", "ProductQuantization"}
QuantVectors == {<<5, 0>>, <<3, 4>>, WrongDimEmbedding}
QuantSamples ==
    {<<>>, <<<<5, 0>>>>, <<<<5, 0>>, <<3, 4>>>>, <<<<0, 5>>, <<4, 3>>>>, <<WrongDimEmbedding>>}
QuantIds == {NoId, Some("x"), Some("y")}

QuantInit ==
    /\ data_path = JsonPath
    /\ entries = <<>>
    /\ version = STORAGE_VERSION
    /\ modified = FALSE
    /\ index = NoIndex
    /\ files = [p \in Paths |-> Absent]
    /\ proc = Idle
    /\ last = NoCall
    /\ lastSaved = NotSaved
    /\ now = 0
    /\ crawler = NoCrawler
    /\ chunker = NoChunker
    /\ quantizer = NoQuantizer
    /\ service = NoService

(* VectorQuantizer::new(method, D) *)
NewQuantizer(method) ==
    /\ ~quantizer.present
    /\ quantizer' = QuantizerNew(method, D)
    /\ UNCHANGED <<data_path, entries, version, modified, index, files, proc, last,
                   lastSaved, now, crawler, chunker, service>>

(* quantizer.initialize(vectors) *)
Initialize(vectors) ==
    /\ quantizer.present
    /\ \E r \in {initialize(quantizer, vectors)} :
           /\ quantizer' = r.q
           /\ last' = [op |-> "initialize", ok |-> r.ok, err |-> r.err, vectors |-> vectors]
    /\ UNCHANGED <<data_path, entries, version, modified, index, files, proc,
                   lastSaved, now, crawler, chunker, service>>

(* quantizer.quantize(vector, id) *)
Quantize(vector, id) ==
    /\ quantizer.present
    /\ \E r \in {quantize(quantizer, vector, id)} :
           /\ quantizer' = r.q
           /\ last' = [op |-> "quantize", ok |-> r.ok, err |-> r.err, vector |-> vector,
                       id |-> id, bytes |-> r.bytes,
                       cached |-> (id.some /\ id.v \in DOMAIN quantizer.quantization_cache)]
    /\ UNCHANGED <<data_path, entries, version, modified, index, files, proc,
                   lastSaved, now, crawler, chunker, service>>

(* quantizer.clear_cache() *)
ClearCache ==
    /\ quantizer.present
    /\ quantizer' = [quantizer EXCEPT !.quantization_cache = [x \in {} |-> <<>>]]
    /\ last' = [op |-> "clear_cache", ok |-> TRUE, err |-> ""]
    /\ UNCHANGED <<data_path, entries, version, modified, index, files, proc,
                   lastSaved, now, crawler, chunker, service>>

QuantNext ==
    \/ \E method \in QuantMethods : NewQuantizer(method)
    \/ \E vectors \in QuantSamples : Initialize(vectors)
    \/ \E vector \in QuantVectors, id \in QuantIds : Quantize(vector, id)
    \/ ClearCache

SpecQuant == QuantInit /\ [][QuantNext]_vars

(* C28: quantize(v, Some(id)) returns the encoding of the given v under    *)
(* the current calibration and fails when v has the wrong dimension, also  *)
(* when the id was quantized before: the cache serves no stale result.     *)
C28_CacheNeverStale ==
    (quantizer.present /\ last.op = "quantize" /\ last.id.some) =>
        /\ Len(last.vector) # quantizer.dimension => ~last.ok
        /\ last.ok => /\ Encode(quantizer, last.vector).ok
                      /\ last.bytes = Encode(quantizer, last.vector).bytes

(***************************************************************************)
(* EmbeddingService (embedding_basic.rs): model is the Option behind the   *)
(* mutex, lock the thread holding the mutex (0: free), once the state of   *)
(* init_once.  init_runs counts the runs of the initialisation closure and *)
(* init_failed tells that a run ended in an error (history).               *)
(***************************************************************************)
Threads == {1, 2}
MaxEmbedCalls == 2     \* calls each thread makes

(* a Once on which a caller passes without waiting for a running closure *)
call_once_no_wait(s) == IF s.once = "new" THEN "run" ELSE "skip"

(* a Once that runs the closure again when the last run left no model *)
call_once_retry(s) ==
    IF s.once = "new" \/ (s.once = "done" /\ s.model = "None") THEN "run"
    ELSE IF s.once = "running" THEN "wait"
    ELSE "skip"

(* std::sync::Once::call_once: the first caller runs the closure, a caller *)
(* arriving while it runs blocks until it is over, later callers skip it   *)
call_once(s) ==
    IF s.once = "new" THEN "run"
    ELSE IF s.once = "running" THEN "wait"
    ELSE "skip"

IdleThread ==
    [pc |-> "idle", kind |-> "", n |-> 0, calls |-> 0, arrived_running |-> FALSE,
     began_failed |-> FALSE]

(* EmbeddingService::new() *)
EmbeddingServiceNew ==
    [present |-> TRUE, model |-> "None", once |-> "new", lock |-> 0, init_runs |-> 0,
     init_failed |-> FALSE, threads |-> [t \in Threads |-> IdleThread]]

EmbedInit ==
    /\ data_path = JsonPath
    /\ entries = <<>>
    /\ version = STORAGE_VERSION
    /\ modified = FALSE
    /\ index = NoIndex
    /\ files = [p \in Paths |-> Absent]
    /\ proc = Idle
    /\ last = NoCall
    /\ lastSaved = NotSaved
    /\ now = 0
    /\ crawler = NoCrawler
    /\ chunker = NoChunker
    /\ quantizer = NoQuantizer
    /\ service = EmbeddingServiceNew

(* thread t calls embed(text) (n = 1) or embed_batch(texts) with n texts *)
EmbedCall(t, kind, n) ==
    /\ service.threads[t].pc = "idle"
    /\ service.threads[t].calls < MaxEmbedCalls
    /\ service' = [service EXCEPT !.threads[t] =
                      [pc |-> "call_once", kind |-> kind, n |-> n, calls |-> @.calls + 1,
                       arrived_running |-> (service.once = "running"),
                       began_failed |-> service.init_failed]]
    /\ UNCHANGED <<data_path, entries, version, modified, index, files, proc, last,
                   lastSaved, now, crawler, chunker, quantizer>>

(* ensure_initialized, self.init_once.call_once(..): t starts the closure, *)
(* or passes with init_result still Ok(()); a waiting caller takes no step *)
EnsureInitialized(t) ==
    /\ service.threads[t].pc = "call_once"
    /\ \E todo \in {call_once(service)} :
           /\ todo # "wait"
           /\ service' = IF todo = "run"
                         THEN [service EXCEPT !.once = "running", !.init_runs = @ + 1,
                                              !.threads[t].pc = "init"]
                         ELSE [service EXCEPT !.threads[t].pc = "lock"]
    /\ UNCHANGED <<data_path, entries, version, modified, index, files, proc, last,
                   lastSaved, now, crawler, chunker, quantizer>>

(* the closure ends: try_initialize_model and the warm-up succeeded and    *)
(* the model is stored, or one of them failed and init_result is the Err   *)
(* that embed_batch returns with context                                   *)
InitDone(t, outcome) ==
    /\ service.threads[t].pc = "init"
    /\ service' = [service EXCEPT
                      !.once = "done",
                      !.model = IF outcome = "ok" THEN "Some" ELSE @,
                      !.init_failed = (outcome # "ok"),
                      !.threads[t].pc = IF outcome = "ok" THEN "lock" ELSE "idle"]
    /\ last' = IF outcome = "ok" THEN last
               ELSE [op |-> service.threads[t].kind, thread |-> t, ok |-> FALSE,
                     err |-> "Failed to initialize embedding model",
                     began_failed |-> service.threads[t].began_failed]
    /\ UNCHANGED <<data_path, entries, version, modified, index, files, proc,
                   lastSaved, now, crawler, chunker, quantizer>>

(* self.model.lock() and model_guard.as_ref(): without a model the call    *)
(* returns Err and the guard is dropped                                    *)
ModelLock(t) ==
    /\ service.threads[t].pc = "lock"
    /\ service.lock = 0
    /\ service' = IF service.model = "None"
                  THEN [service EXCEPT !.threads[t].pc = "idle"]
                  ELSE [service EXCEPT !.lock = t, !.threads[t].pc = "embedding"]
    /\ last' = IF service.model = "None"
               THEN [op |-> service.threads[t].kind, thread |-> t, ok |-> FALSE,
                     err |-> "Model not initialized",
                     began_failed |-> service.threads[t].began_failed]
               ELSE last
    /\ UNCHANGED <<data_path, entries, version, modified, index, files, proc,
                   lastSaved, now, crawler, chunker, quantizer>>

(* the loop over the texts and the return, the guard dropped: model.embed  *)
(* can fail only when there is a text                                      *)
EmbedReturn(t, ok) ==
    /\ service.threads[t].pc = "embedding"
    /\ ok \/ service.threads[t].n > 0
    /\ service' = [service EXCEPT !.lock = 0, !.threads[t].pc = "idle"]
    /\ last' = [op |-> service.threads[t].kind, thread |-> t, ok |-> ok,
                err |-> IF ok THEN "" ELSE "Failed to generate embedding for text",
                began_failed |-> service.threads[t].began_failed]
    /\ UNCHANGED <<data_path, entries, version, modified, index, files, proc,
                   lastSaved, now, crawler, chunker, quantizer>>

EmbedNext ==
    \/ \E t \in Threads : EmbedCall(t, "embed", 1)
    \/ \E t \in Threads, n \in 0..1 : EmbedCall(t, "embed_batch", n)
    \/ \E t \in Threads : EnsureInitialized(t)
    \/ \E t \in Threads, outcome \in {"ok", "init_err", "warmup_err"} : InitDone(t, outcome)
    \/ \E t \in Threads : ModelLock(t)
    \/ \E t \in Threads, ok \in BOOLEAN : EmbedReturn(t, ok)

SpecEmbed == EmbedInit /\ [][EmbedNext]_vars

(* C22: for any number of concurrent and sequential embed calls on one     *)
(* service the initialisation routine runs at most once, and a caller that *)
(* arrives while it is running waits for its end before embedding.         *)
C22_InitOnceAndWaited ==
    service.present =>
        /\ service.init_runs <= 1
        /\ \A t \in Threads :
               service.threads[t].pc \in {"lock", "embedding"} => service.once = "done"

(* a caller that arrived while the initialisation was running is now       *)
(* embedding, after the one run of the initialisation                      *)
C22_Witness ==
    /\ service.present
    /\ service.init_runs = 1
    /\ \E t \in Threads : /\ service.threads[t].arrived_running
                          /\ service.threads[t].pc = "embedding"

(* C29: a failed initialisation is never retried: the model stays unset    *)
(* and every embed or embed_batch call made after the failure returns an   *)
(* error.                                                                  *)
C29_FailedInitIsFinal ==
    (service.present /\ service.init_failed) =>
        /\ service.init_runs = 1
        /\ service.model = "None"
        /\ \A t \in Threads : service.threads[t].pc \notin {"init", "embedding"}
        /\ (last.op \in {"embed", "embed_batch"} /\ last.began_failed) => ~last.ok

(* a call made after the failed initialisation has returned its error *)
C29_Witness ==
    /\ service.present /\ service.init_failed
    /\ last.op \in {"embed", "embed_batch"}
    /\ last.began_failed
    /\ last.err = "Model not initialized"

(***************************************************************************)
(* The MCP server (mcp/sdk_server.rs): its VectorDatabase is made with     *)
(* VectorDatabase::new, so it has no index; entries is its store, now the  *)
(* clock and lastSaved what vector_db.save() wrote last.                   *)
(***************************************************************************)
MaxServerEntries == 2  \* longest store explored here
DefaultAgeDays == 2    \* max_age_days.unwrap_or(90), in the model's days

ServerEntry(id, url, indexed_at, last_updated) ==
    [id |-> id, vector |-> EmbeddingOf(id), indexed_at |-> indexed_at,
     last_updated |-> last_updated,
     document |-> [id |-> id, url |-> url, metadata_content_type |-> "Documentation"]]

(* get_documents_by_source().get(source).map(|docs| docs.len())            *)
(* .unwrap_or(0): a document with an empty url is filed under "local"      *)
DocumentsBySource(es, source) ==
    Cardinality({i \in DOMAIN es :
                    (IF es[i].document.url = "" THEN "local" ELSE es[i].document.url) = source})

(* the dry-run count of expire at time t *)
ExpireDryRun(es, t, age_days, overflow_checks) ==
    LET Count(age) ==
            IF age.panic THEN [panic |-> TRUE, count |-> 0]
            ELSE [panic |-> FALSE,
                  count |-> Cardinality({i \in DOMAIN es :
                      (IF es[i].last_updated.some THEN es[i].last_updated.v ELSE UNIX_EPOCH)
                          <= CutoffTime(t, age.secs)})]
    IN  Count(AgeSecs(age_days, overflow_checks))

(* Url::parse(&url) succeeds *)
IsUrl(s) == s \in {"http://h", "http://h/"}

RECURSIVE AddChunks(_, _, _, _, _)
(* the loop over the chunks of crawl_docs: chunk i is embedded and added   *)
(* with last_updated = now; an embedding error returns at once             *)
AddChunks(es, url, t, page, i) ==
    IF i >= page.chunks THEN [ok |-> TRUE, entries |-> es]
    ELSE IF page.embed_err = i + 1 THEN [ok |-> FALSE, entries |-> es]
    ELSE AddChunks(Append(es, ServerEntry(DocId(url, i), url, t, Some(t))), url, t, page, i + 1)

(* crawl_docs(url, mode, ..) at time t: page tells what the fetch gave, how *)
(* many chunks the page has, which embedding failed and whether save did   *)
crawl_docs(es, url, mode, t, page) ==
    LET Saved(added) ==
            IF ~added.ok
            THEN [ok |-> FALSE, err |-> "Failed to generate embedding", entries |-> added.entries,
                  saved |-> FALSE, documents_created |-> 0]
            ELSE IF ~page.save_ok
            THEN [ok |-> FALSE, err |-> "Failed to save database", entries |-> added.entries,
                  saved |-> FALSE, documents_created |-> 0]
            ELSE [ok |-> TRUE, err |-> "", entries |-> added.entries, saved |-> TRUE,
                  documents_created |-> Len(added.entries) - Len(es)]
    IN  IF ~IsUrl(url)
        THEN [ok |-> FALSE, err |-> "Invalid URL", entries |-> es, saved |-> FALSE,
              documents_created |-> 0]
        ELSE IF mode \notin {"single", "section", "full"}
        THEN [ok |-> FALSE, err |-> "Invalid mode", entries |-> es, saved |-> FALSE,
              documents_created |-> 0]
        ELSE IF ~page.fetched
        THEN [ok |-> FALSE, err |-> "Failed to fetch URL", entries |-> es, saved |-> FALSE,
              documents_created |-> 0]
        ELSE Saved(AddChunks(es, url, t, page, 0))

Pages ==
    {[fetched |-> FALSE, chunks |-> 0, embed_err |-> 0, save_ok |-> TRUE]} \cup
    [fetched : {TRUE}, chunks : {MaxChunks}, embed_err : 0..MaxChunks, save_ok : BOOLEAN]
Targets == {"", "local", "http://h/"}
AgeDays == {NoFilter, Some(0), Some(1)}

(* the stores a file written by another process can hold at time t *)
LoadedEntries(t) ==
    {ServerEntry("a", "", t, lu) : lu \in {NoFilter, Some(1)}} \cup
    {ServerEntry("b", "http://h/", t, lu) : lu \in {NoFilter, Some(1)}}
LoadedStores(t) ==
    {<<>>} \cup {<<e>> : e \in LoadedEntries(t)} \cup
    {<<e, f>> : e \in {x \in LoadedEntries(t) : x.id = "a"},
                f \in {x \in LoadedEntries(t) : x.id = "b"}}

ServerInit ==
    /\ data_path = JsonPath
    /\ entries = <<>>
    /\ version = STORAGE_VERSION
    /\ modified = FALSE
    /\ index = NoIndex
    /\ files = [p \in Paths |-> Absent]
    /\ proc = Idle
    /\ last = NoCall
    /\ lastSaved = NotSaved
    /\ now = 1
    /\ crawler = NoCrawler
    /\ chunker = NoChunker
    /\ quantizer = NoQuantizer
    /\ service = NoService

(* reload_docs: vector_db.load() of the file as another process wrote it *)
ReloadDocs(loaded) ==
    /\ entries' = loaded
    /\ modified' = FALSE
    /\ lastSaved' = [valid |-> TRUE, entries |-> loaded]
    /\ last' = [op |-> "reload", ok |-> TRUE]
    /\ UNCHANGED <<data_path, version, index, files, proc, now, crawler, chunker, extra>>

(* the crawl_docs tool *)
CrawlDocs(url, mode, page) ==
    /\ Len(entries) + page.chunks <= MaxServerEntries
    /\ \E r \in {crawl_docs(entries, url, mode, now, page)} :
           /\ entries' = r.entries
           /\ modified' = (modified \/ r.entries # entries)
           /\ lastSaved' = IF r.saved THEN [valid |-> TRUE, entries |-> r.entries]
                           ELSE lastSaved
           /\ last' = [op |-> "crawl_docs", ok |-> r.ok, err |-> r.err, target |-> url,
                       before |-> entries]
    /\ UNCHANGED <<data_path, version, index, files, proc, now, crawler, chunker, extra>>

(* manage_docs, operation "delete" *)
ManageDelete(target, dry_run, save_ok) ==
    /\ \E r \in {StorageRemoveBySource(entries, target)} :
       \E deleted_count \in {IF dry_run THEN DocumentsBySource(entries, target)
                             ELSE r.removed_count} :
           /\ entries' = IF dry_run THEN entries ELSE r.entries
           /\ modified' = (modified \/ (~dry_run /\ r.removed_count > 0))
           /\ lastSaved' = IF ~dry_run /\ deleted_count > 0 /\ save_ok
                           THEN [valid |-> TRUE, entries |-> r.entries] ELSE lastSaved
           /\ last' = [op |-> "delete", dry_run |-> dry_run, target |-> target,
                       ok |-> (dry_run \/ deleted_count = 0 \/ save_ok), panic |-> FALSE,
                       before |-> entries, at |-> now, count |-> deleted_count]
    /\ UNCHANGED <<data_path, version, index, files, proc, now, crawler, chunker, extra>>

(* manage_docs, operation "expire" *)
ManageExpire(max_age_days, dry_run, overflow_checks, save_ok) ==
    /\ \E age_days \in {IF max_age_days.some THEN max_age_days.v ELSE DefaultAgeDays} :
       \E r \in {DbRemoveDocumentsByAge(entries, NoIndex, now, age_days, overflow_checks,
                                        <<>>)} :
       \E dry \in {ExpireDryRun(entries, now, age_days, overflow_checks)} :
       \E expired_count \in {IF dry_run THEN dry.count ELSE r.removed_count} :
           /\ entries' = IF dry_run THEN entries ELSE r.entries
           /\ modified' = (modified \/ (~dry_run /\ r.removed_count > 0))
           /\ lastSaved' = IF ~dry_run /\ expired_count > 0 /\ save_ok
                           THEN [valid |-> TRUE, entries |-> r.entries] ELSE lastSaved
           /\ last' = [op |-> "expire", dry_run |-> dry_run, age_days |-> age_days,
                       overflow_checks |-> overflow_checks, panic |-> r.panic,
                       ok |-> ~r.panic /\ (dry_run \/ expired_count = 0 \/ save_ok),
                       before |-> entries, at |-> now, count |-> expired_count]
    /\ UNCHANGED <<data_path, version, index, files, proc, now, crawler, chunker, extra>>

(* manage_docs, operation "refresh": the old documents are removed, the    *)
(* lock is released, and crawl_docs(target, ..) is awaited with `?`        *)
ManageRefresh(target, dry_run, mode, page) ==
    /\ \E removed \in {StorageRemoveBySource(entries, target)} :
       \E r \in {IF dry_run
                 THEN [ok |-> TRUE, err |-> "", entries |-> entries, saved |-> FALSE,
                       documents_created |-> 0]
                 ELSE crawl_docs(removed.entries, target, mode, now, page)} :
           /\ entries' = r.entries
           /\ modified' = (modified \/ r.entries # entries)
           /\ lastSaved' = IF r.saved THEN [valid |-> TRUE, entries |-> r.entries]
                           ELSE lastSaved
           /\ last' = [op |-> "refresh", dry_run |-> dry_run, target |-> target,
                       ok |-> r.ok, err |-> r.err, panic |-> FALSE, before |-> entries,
                       at |-> now,
                       count |-> IF dry_run THEN DocumentsBySource(entries, target)
                                 ELSE removed.removed_count,
                       new_documents |-> r.documents_created]
    /\ UNCHANGED <<data_path, version, index, files, proc, now, crawler, chunker, extra>>

ServerNext ==
    \/ AgeTick
    \/ \E loaded \in LoadedStores(now) : ReloadDocs(loaded)
    \/ \E mode \in {"single", "bogus"}, page \in Pages : CrawlDocs("http://h/", mode, page)
    \/ \E target \in Targets, dry_run \in BOOLEAN, save_ok \in BOOLEAN :
          ManageDelete(target, dry_run, save_ok)
    \/ \E max_age_days \in AgeDays, dry_run \in BOOLEAN, overflow_checks \in BOOLEAN,
          save_ok \in BOOLEAN : ManageExpire(max_age_days, dry_run, overflow_checks, save_ok)
    \/ \E target \in Targets, dry_run \in BOOLEAN, mode \in {"single", "bogus"}, page \in Pages :
          ManageRefresh(target, dry_run, mode, page)

SpecServer == ServerInit /\ [][ServerNext]_vars

(* C21: a delete or expire call with dry_run = true leaves the store        *)
(* unchanged and reports the count that the same call with dry_run = false *)
(* would remove from that store, for every target and every document.      *)
C21_DryRunCountsWhatIsRemoved ==
    (last.op \in {"delete", "expire"} /\ last.dry_run /\ ~last.panic) =>
        /\ entries = last.before
        /\ last.op = "delete" =>
               last.count = StorageRemoveBySource(last.before, last.target).removed_count
        /\ last.op = "expire" =>
               last.count = DbRemoveDocumentsByAge(last.before, NoIndex, last.at,
                                last.age_days, last.overflow_checks, <<>>).removed_count

(* C30: a refresh whose re-crawl fails loses no data: the store still      *)
(* holds the old documents of the source when the call returns.            *)
C30_FailedRefreshKeepsOldDocuments ==
    (last.op = "refresh" /\ ~last.dry_run /\ ~last.ok) =>
        \A i \in DOMAIN last.before :
            last.before[i].document.url = last.target =>
                \E k \in DOMAIN entries : entries[k] = last.before[i]

====
